---- MODULE Spec2Model ----
(***************************************************************************)
(* Buffered delivery sinks of accordkit/tracer: the guarded HttpSink       *)
(* (src/unnamed/part_003), BrowserSink (src/src/core/sinks/browserSink.ts) *)
(* and FileSink (src/src/core/sinks/fileSink.ts), and the single-queue     *)
(* HttpSink of src/src/core/sinks/httpSink.ts; the Tracer                  *)
(* (src/unnamed/part_006) with its middleware pipeline                     *)
(* (src/src/core/middleware.ts) in front of a guarded HttpSink.            *)
(* One sink instance; every action is one run-to-                          *)
(* completion segment of the JavaScript event loop: a public call up to    *)
(* its return, or the continuation of the flush coroutine from one await   *)
(* to the next.  Records are numbered in write order; record r is the      *)
(* r-th write() call.                                                      *)
(***************************************************************************)
EXTENDS Integers, Sequences, FiniteSets, TLC

\* ------------------------------------------------------------- bounds
MaxRecs == 3         \* write() calls in a behaviour
MaxCalls == 1        \* flush()/close() calls whose promise is observed
MaxBatchSize == 2    \* batchSize option ranges over 1..MaxBatchSize
MaxCapacity == 2     \* maxBuffer option ranges over 1..MaxCapacity
MaxRetries == 1      \* retry.retries option of the HttpSink
\* The durable BrowserSink keeps undelivered records queued, so its cycles and
\* requests are not bounded by the number of writes:
MaxDurableRecs == 2     \* write() calls on a durable sink in a behaviour
MaxDurableCycles == 2   \* flush cycles of a durable sink in a behaviour
MaxDurableSends == 2    \* send calls of a durable sink in a behaviour

MaxEmits == 2           \* emit-helper and spanEnd calls on a Tracer in a behaviour
MaxMiddlewares == 2     \* length of the middlewares option of a Tracer
MaxBeacons == 1         \* payloads the user agent accepts through sendBeacon
RandDen == 2            \* Math.random() ranges over {0/RandDen .. (RandDen-1)/RandDen}

Keys == {"s1", "s2"}
\* http: the guarded HttpSink; the others are BrowserSink with delivery
\* 'buffered' (durable 'none': browser, durable 'idb': durable) or 'immediate'
Kinds == {"http", "browser", "durable", "immediate"}
Policies == {"auto-flush", "drop-oldest", "error"}
\* 0 stands for "no status": fetch rejected (network error)
Statuses == {0, 200, 400, 413, 503}
\* the statuses of the retry and transport checks
TransportStatuses ==
  {0, 200, 400, 401, 404, 408, 409, 413, 422, 425, 429, 499, 500, 503, 599, 600}

\* `undefined`, where the code computes a number or undefined
Undefined == -1
\* The Retry-After header of a response: absent, a string of digits (n
\* seconds), an HTTP-date (n: the date minus Date.now() at the time the
\* response is handled, in ms) or a string that is neither.
NoHeader == [form |-> "absent", n |-> 0]
RetryAfterHeaders ==
  {NoHeader, [form |-> "junk", n |-> 0]}
    \cup [form : {"seconds"}, n : {0, 2}]
    \cup [form : {"date"}, n : {-1000, 0, 2000}]

VARIABLES
  cfg,            \* constructor options (readonly fields)
  keyOrder,       \* insertion order of the keys of this.buffers (a Map)
  buffers,        \* this.buffers: key -> pending lines
  totalBuffered,  \* this.totalBuffered
  flushInFlight,  \* this.flushInFlight: 0 = null, c = promise of cycle c
  flushRequested, \* this.flushRequested
  closed,         \* this.closed
  timer,          \* the interval timer is armed
  cycles,         \* flush coroutines (the async IIFE of flush), by promise id
  reqLog,         \* transport requests in issue order
  dropLog,        \* onDropBatch calls in call order
  evicted,        \* records removed by dropOldest
  idb,            \* the IndexedDB object store, in key (insertion) order
  sendLog,        \* BrowserSink.send calls in call order
  beaconQuota,    \* payloads navigator.sendBeacon will still accept
  files,          \* FileSink: the lines of <base>/<key>.jsonl, by key
  diskOk,         \* FileSink: mkdirSync / appendFileSync succeed (else they throw)
  queue,          \* HttpSink of httpSink.ts: this.queue
  inflight,       \* HttpSink of httpSink.ts: this.inflight
  emits,          \* Tracer: the emit-helper and spanEnd calls, in call order
  mwCalls,        \* Tracer: the middleware invocations, in call order
  writes,         \* write() calls in call order
  calls           \* observed flush()/close() calls in call order

vars == <<cfg, keyOrder, buffers, totalBuffered, flushInFlight, flushRequested,
          closed, timer, cycles, reqLog, dropLog, evicted, idb, sendLog, beaconQuota,
          files, diskOk, queue, inflight, emits, mwCalls, writes, calls>>

Min(a, b) == IF a < b THEN a ELSE b
Max(a, b) == IF a > b THEN a ELSE b
Range(s) == {s[i] : i \in DOMAIN s}

RECURSIVE Flatten(_)
Flatten(ss) == IF ss = <<>> THEN <<>> ELSE Head(ss) \o Flatten(Tail(ss))

\* The mutable fields as one record, for the operators that model code.
St == [keyOrder |-> keyOrder, buffers |-> buffers, totalBuffered |-> totalBuffered,
       flushInFlight |-> flushInFlight, flushRequested |-> flushRequested,
       closed |-> closed, timer |-> timer, cycles |-> cycles, reqLog |-> reqLog,
       dropLog |-> dropLog, evicted |-> evicted, idb |-> idb, sendLog |-> sendLog,
       beaconQuota |-> beaconQuota, files |-> files, diskOk |-> diskOk,
       queue |-> queue, inflight |-> inflight, emits |-> emits, mwCalls |-> mwCalls]

\* the bounds on a durable sink
InBounds(S) ==
  cfg.kind = "durable" =>
    /\ Len(S.cycles) <= MaxDurableCycles
    /\ Len(S.reqLog) <= MaxDurableSends
    /\ Len(S.sendLog) <= MaxDurableSends

\* S is the next state
Apply(S) ==
  /\ InBounds(S)
  /\ keyOrder' = S.keyOrder
  /\ buffers' = S.buffers
  /\ totalBuffered' = S.totalBuffered
  /\ flushInFlight' = S.flushInFlight
  /\ flushRequested' = S.flushRequested
  /\ closed' = S.closed
  /\ timer' = S.timer
  /\ cycles' = S.cycles
  /\ reqLog' = S.reqLog
  /\ dropLog' = S.dropLog
  /\ evicted' = S.evicted
  /\ idb' = S.idb
  /\ sendLog' = S.sendLog
  /\ beaconQuota' = S.beaconQuota
  /\ files' = S.files
  /\ diskOk' = S.diskOk
  /\ queue' = S.queue
  /\ inflight' = S.inflight
  /\ emits' = S.emits
  /\ mwCalls' = S.mwCalls

\* A coroutine that has not drained anything yet; with pc "done" (the IIFE
\* returned, its promise is resolved) it is also the shape of a finished one.
\* drained: the records its passes took out of the buffer.
DoneCycle == [pc |-> "done", batches |-> <<>>, lines |-> <<>>, attempt |-> 0,
              delay |-> 0, allowDownshift |-> TRUE, right |-> <<>>, drained |-> {}]

Buffered(S) == UNION {Range(S.buffers[k]) : k \in Keys}
Running(S) == {c \in DOMAIN S.cycles : S.cycles[c].pc \notin {"done", "rejected"}}

\* ------------------------------------------------------------- drain
\* arr.splice(0, n): the removed prefix and what is left
SplicePrefix(arr, n) == SubSeq(arr, 1, Min(n, Len(arr)))
SpliceRest(arr, n) == SubSeq(arr, Min(n, Len(arr)) + 1, Len(arr))

\* The while(any) / for(sid of sessions) loops of drainBatches, from position i
\* of the current round.
RECURSIVE DrainLoop(_, _, _, _, _, _)
DrainLoop(bufs, sessions, i, any, batches, batchSize) ==
  IF i > Len(sessions)
  THEN IF any THEN DrainLoop(bufs, sessions, 1, FALSE, batches, batchSize)
       ELSE [buffers |-> bufs, batches |-> batches]
  ELSE LET sid == sessions[i]
           arr == bufs[sid]
       IN IF Len(arr) = 0
          THEN DrainLoop(bufs, sessions, i + 1, any, batches, batchSize)
          ELSE DrainLoop([bufs EXCEPT ![sid] = SpliceRest(arr, batchSize)], sessions,
                         i + 1, TRUE, Append(batches, SplicePrefix(arr, batchSize)),
                         batchSize)

\* One round of the while(any) loop of drainBatches, from position i of the
\* for-of: the arrays after it and the value of `any` at its end.
RECURSIVE DrainRound(_, _, _, _, _)
DrainRound(bufs, sessions, i, any, batchSize) ==
  IF i > Len(sessions) THEN [buffers |-> bufs, any |-> any]
  ELSE LET arr == bufs[sessions[i]]
       IN IF Len(arr) = 0 THEN DrainRound(bufs, sessions, i + 1, any, batchSize)
          ELSE DrainRound([bufs EXCEPT ![sessions[i]] = SpliceRest(arr, Max(0, batchSize))],
                          sessions, i + 1, TRUE, batchSize)

\* The while(any) loop of drainBatches never exits: a round ends with `any`
\* set and every array as it was when the round began (its chunks were empty,
\* so `batches` and `removed` are unchanged too), hence every later round
\* does the same.
RECURSIVE drainLoops(_, _, _)
drainLoops(bufs, sessions, batchSize) ==
  LET r == DrainRound(bufs, sessions, 1, FALSE, batchSize)
  IN IF ~r.any THEN FALSE
     ELSE IF r.buffers = bufs THEN TRUE
     ELSE drainLoops(r.buffers, sessions, batchSize)

\* drainBatches with chunks of batchSize + 1 lines.
drainBatchesLongChunk(S, batchSize) ==
  IF S.totalBuffered = 0 THEN [s |-> S, batches |-> <<>>]
  ELSE LET d == DrainLoop(S.buffers, S.keyOrder, 1, FALSE, <<>>, batchSize + 1)
           removed == Len(Flatten(d.batches))
       IN [s |-> [S EXCEPT !.buffers = d.buffers,
                           !.totalBuffered = Max(0, S.totalBuffered - removed)],
           batches |-> d.batches]

\* drainBatches without the update of this.totalBuffered.
drainBatchesKeepTotal(S, batchSize) ==
  IF S.totalBuffered = 0 THEN [s |-> S, batches |-> <<>>]
  ELSE LET d == DrainLoop(S.buffers, S.keyOrder, 1, FALSE, <<>>, batchSize)
       IN [s |-> [S EXCEPT !.buffers = d.buffers], batches |-> d.batches]

\* drainBatches(): the early return on an empty buffer, the loops, and the
\* total lowered by the number of lines removed
drainBatches(S, batchSize) ==
  IF S.totalBuffered = 0 THEN [s |-> S, batches |-> <<>>]
  ELSE LET d == DrainLoop(S.buffers, S.keyOrder, 1, FALSE, <<>>, batchSize)
           removed == Len(Flatten(d.batches))
       IN [s |-> [S EXCEPT !.buffers = d.buffers,
                           !.totalBuffered = Max(0, S.totalBuffered - removed)],
           batches |-> d.batches]

\* drainAllFromRam: every array spliced empty, in Map order
RECURSIVE ConcatBuffers(_, _)
ConcatBuffers(bufs, order) ==
  IF order = <<>> THEN <<>> ELSE bufs[Head(order)] \o ConcatBuffers(bufs, Tail(order))

drainAllFromRam(S) ==
  IF S.totalBuffered = 0 THEN [s |-> S, ram |-> <<>>]
  ELSE [s |-> [S EXCEPT !.buffers = [k \in Keys |-> <<>>], !.totalBuffered = 0],
        ram |-> ConcatBuffers(S.buffers, S.keyOrder)]

\* dropOldest: shift the first non-empty array in Map order
dropOldest(S) ==
  LET ne == {i \in DOMAIN S.keyOrder : Len(S.buffers[S.keyOrder[i]]) > 0}
  IN IF ne = {} THEN S
     ELSE LET i == CHOOSE x \in ne : \A y \in ne : x <= y
              k == S.keyOrder[i]
          IN [S EXCEPT !.buffers[k] = Tail(@),
                       !.evicted = @ \cup {Head(S.buffers[k])},
                       !.totalBuffered = Max(0, @ - 1)]

\* ------------------------------------------------------------- transport
\* shouldRetry without the 429 line.
shouldRetryNot429(status) ==
  \/ status = 0
  \/ status = 408
  \/ status = 425
  \/ (status >= 500 /\ status < 600)

\* shouldRetry(status); status 0 is "undefined" (network error / throw)
shouldRetry(status) ==
  \/ status = 0
  \/ status = 408
  \/ status = 425
  \/ status = 429
  \/ (status >= 500 /\ status < 600)

\* res.ok
ResOk(status) == status >= 200 /\ status <= 299

\* this.onDropBatch?.(lines, err)
onDropBatch(S, lines) == [S EXCEPT !.dropLog = Append(@, lines)]

\* fetch(endpoint, {body}) followed by await: coroutine c (0: an immediate-mode
\* write) is suspended on an outstanding request.
fetch(S, c, lines) ==
  LET S1 == [S EXCEPT !.reqLog = Append(@, [lines |-> lines, st |-> "pending", owner |-> c,
                                            keepalive |-> (cfg.kind # "http")])]
  IN IF c = 0 THEN S1 ELSE [S1 EXCEPT !.cycles[c].pc = "fetch"]

\* JSON.stringify(e) of the r-th event written is r + 1 bytes long
LineBytes(r) == r + 1

\* byteLength(body) of body = lines.join('\n') + '\n'
RECURSIVE byteLength(_)
byteLength(lines) ==
  IF lines = <<>> THEN 0 ELSE LineBytes(Head(lines)) + 1 + byteLength(Tail(lines))

\* send(body) returned without awaiting anything: the coroutine awaiting it
\* goes on in a microtask
SendReturned(S, c) == IF c = 0 THEN S ELSE [S EXCEPT !.cycles[c].pc = "sent"]

\* send(body) with the size test `<` in place of `<=`.
sendBelowThreshold(S, c, lines) ==
  IF ~cfg.endpoint
  THEN SendReturned([S EXCEPT !.sendLog = Append(@, [lines |-> lines, beacon |-> "untried"])], c)
  ELSE IF cfg.canBeacon /\ byteLength(lines) < cfg.beaconMax
  THEN IF S.beaconQuota > 0
       THEN SendReturned([S EXCEPT !.sendLog = Append(@, [lines |-> lines,
                                                           beacon |-> "accepted"]),
                                   !.beaconQuota = @ - 1], c)
       ELSE fetch([S EXCEPT !.sendLog = Append(@, [lines |-> lines, beacon |-> "refused"])],
                  c, lines)
  ELSE fetch([S EXCEPT !.sendLog = Append(@, [lines |-> lines, beacon |-> "untried"])],
             c, lines)

\* BrowserSink.send(body) up to its first await or its return: no endpoint,
\* beacon accepted, or fetch with keepalive (beacon not tried, or refused).
send(S, c, lines) ==
  IF ~cfg.endpoint
  THEN SendReturned([S EXCEPT !.sendLog = Append(@, [lines |-> lines, beacon |-> "untried"])], c)
  ELSE IF cfg.canBeacon /\ byteLength(lines) <= cfg.beaconMax
  THEN IF S.beaconQuota > 0
       THEN SendReturned([S EXCEPT !.sendLog = Append(@, [lines |-> lines,
                                                           beacon |-> "accepted"]),
                                   !.beaconQuota = @ - 1], c)
       ELSE fetch([S EXCEPT !.sendLog = Append(@, [lines |-> lines, beacon |-> "refused"])],
                  c, lines)
  ELSE fetch([S EXCEPT !.sendLog = Append(@, [lines |-> lines, beacon |-> "untried"])],
             c, lines)

\* parseRetryAfterMs(h): milliseconds, or Undefined
parseRetryAfterMs(h) ==
  IF h.form = "absent" THEN Undefined
  ELSE IF h.form = "seconds" THEN h.n * 1000
  ELSE IF h.form = "date"
  THEN IF h.n >= 1 THEN h.n
       ELSE IF h.n >= 0 THEN 1
       ELSE Undefined
  ELSE Undefined

\* computeBackoffMs without the doubling per attempt.
computeBackoffFlat(attempt, u) ==
  LET base == Min(cfg.maxMs, cfg.baseMs)
  IN IF ~cfg.jitter THEN base
     ELSE (base * (RandDen + u)) \div (2 * RandDen)

\* computeBackoffMs(attempt), with Math.random() = u / RandDen
computeBackoffMs(attempt, u) ==
  LET base == Min(cfg.maxMs, cfg.baseMs * 2 ^ (attempt - 1))
  IN IF ~cfg.jitter THEN base
     ELSE (base * (RandDen + u)) \div (2 * RandDen)

\* await this.sleep(ms): a timer of ms, or for ms <= 0 a return at once (the
\* coroutine goes on in a microtask)
sleep(S, c, ms) ==
  [S EXCEPT !.cycles[c].delay = ms,
            !.cycles[c].pc = IF ms <= 0 THEN "sleep0" ELSE "sleep"]

\* The end of the catch block without `attempt++`.
BackoffKeepAttempt(S, c, status, h, u) ==
  LET attempt == S.cycles[c].attempt + 1
      retryAfterMs == IF status = 0 THEN Undefined ELSE parseRetryAfterMs(h)
      delayMs == IF retryAfterMs # Undefined THEN retryAfterMs
                 ELSE computeBackoffMs(attempt, u)
  IN sleep(S, c, delayMs)

\* The end of the catch block of sendBatchWithRetry for a retryable failure
\* of a batch with retries left: the delay is the Retry-After hint of the
\* response (a network error carries none) or the computed backoff.
Backoff(S, c, status, h, u) ==
  LET attempt == S.cycles[c].attempt + 1
      retryAfterMs == IF status = 0 THEN Undefined ELSE parseRetryAfterMs(h)
      delayMs == IF retryAfterMs # Undefined THEN retryAfterMs
                 ELSE computeBackoffMs(attempt, u)
  IN sleep([S EXCEPT !.cycles[c].attempt = attempt], c, delayMs)

\* sendBatchWithRetry with `let attempt = 0` left out: the counter of the
\* previous batch is carried on.
sendBatchKeepAttempt(S, c, lines, allowDownshift, right) ==
  LET S1 == [S EXCEPT !.cycles[c].lines = lines,
                      !.cycles[c].delay = 0,
                      !.cycles[c].allowDownshift = allowDownshift,
                      !.cycles[c].right = right]
  IN IF cfg.kind = "http" THEN fetch(S1, c, lines) ELSE send(S1, c, lines)

\* Entry of sendBatchWithRetry(lines, allowDownshift) (HttpSink) and of
\* send(body) (BrowserSink) up to the first await.  right: the half that the
\* caller (a 413 split) sends after this call returns.
sendBatchWithRetry(S, c, lines, allowDownshift, right) ==
  LET S1 == [S EXCEPT !.cycles[c].lines = lines,
                      !.cycles[c].attempt = 0,
                      !.cycles[c].delay = 0,
                      !.cycles[c].allowDownshift = allowDownshift,
                      !.cycles[c].right = right]
  IN IF cfg.kind = "http" THEN fetch(S1, c, lines) ELSE send(S1, c, lines)

\* finally { this.flushInFlight = null } and the IIFE returns
FinishCycle(S, c) ==
  [S EXCEPT !.flushInFlight = 0,
            !.cycles[c] = [DoneCycle EXCEPT !.drained = S.cycles[c].drained]]

\* finally { this.flushInFlight = null } and the IIFE throws: its promise rejects
RejectCycle(S, c) ==
  [S EXCEPT !.flushInFlight = 0,
            !.cycles[c] = [DoneCycle EXCEPT !.pc = "rejected",
                                            !.drained = S.cycles[c].drained]]

\* await this.idbTakeBatch(this.batchSize) is started
idbTakeBatch(S, c) ==
  [S EXCEPT !.cycles[c].pc = "idbTake", !.cycles[c].lines = <<>>,
            !.cycles[c].batches = <<>>]

\* One iteration of the do-body up to its first await: flushRequested = false,
\* then either drainBatches() and the first send, or (durable) drainAllFromRam()
\* and idbBulkAdd / idbTakeBatch.  A non-durable pass that drains nothing falls
\* through to the loop test with the flag clear.
DrainPass(S, c) ==
  IF cfg.kind = "durable"
  THEN LET d == drainAllFromRam([S EXCEPT !.flushRequested = FALSE])
       IN IF Len(d.ram) > 0
          THEN [d.s EXCEPT !.cycles[c].pc = "idbAdd", !.cycles[c].lines = d.ram,
                           !.cycles[c].batches = <<d.ram>>,
                           !.cycles[c].drained = @ \cup Range(d.ram)]
          ELSE idbTakeBatch(d.s, c)
  ELSE LET d == drainBatches([S EXCEPT !.flushRequested = FALSE], cfg.batchSize)
       IN IF d.batches = <<>> THEN FinishCycle(d.s, c)
          ELSE sendBatchWithRetry([d.s EXCEPT !.cycles[c].batches = d.batches,
                                              !.cycles[c].drained =
                                                 @ \cup Range(Flatten(d.batches))],
                                  c, Head(d.batches), TRUE, <<>>)

\* while (this.flushRequested)
LoopTest(S, c) ==
  IF S.flushRequested THEN DrainPass([S EXCEPT !.cycles[c].batches = <<>>], c)
  ELSE FinishCycle(S, c)

\* The for-of step after a batch is resolved, then the loop test.
NextBatch(S, c) ==
  LET rest == Tail(S.cycles[c].batches)
  IN IF rest # <<>>
     THEN sendBatchWithRetry([S EXCEPT !.cycles[c].batches = rest], c, Head(rest), TRUE, <<>>)
     ELSE LoopTest(S, c)

\* A sendBatchWithRetry call returns: to the 413 split (which sends the right
\* half next) or to the for-of loop of flush.
BatchReturn(S, c) ==
  LET cy == S.cycles[c]
  IN IF cy.right # <<>> THEN sendBatchWithRetry(S, c, cy.right, FALSE, <<>>)
     ELSE NextBatch(S, c)

\* sendBatchWithRetry with the halves of a 413 split sent right half first.
HttpSettledRightFirst(S, c, status, h, u) ==
  LET cy == S.cycles[c]
      lines == cy.lines
  IN IF ResOk(status) THEN BatchReturn(S, c)
     ELSE IF status = 413
     THEN IF cy.allowDownshift /\ Len(lines) > 1
          THEN LET mid == Len(lines) \div 2
               IN sendBatchWithRetry(S, c, SubSeq(lines, mid + 1, Len(lines)), FALSE,
                                     SubSeq(lines, 1, mid))
          ELSE BatchReturn(onDropBatch(S, lines), c)
     ELSE IF ~shouldRetry(status) THEN BatchReturn(onDropBatch(S, lines), c)
     ELSE IF cy.attempt + 1 > cfg.retries THEN BatchReturn(onDropBatch(S, lines), c)
     ELSE Backoff(S, c, status, h, u)

\* sendBatchWithRetry with the `return` after the non-retryable drop left out:
\* the batch is reported and then retried.
HttpSettledDropAndRetry(S, c, status, h, u) ==
  LET cy == S.cycles[c]
      lines == cy.lines
  IN IF ResOk(status) THEN BatchReturn(S, c)
     ELSE IF status = 413
     THEN IF cy.allowDownshift /\ Len(lines) > 1
          THEN LET mid == Len(lines) \div 2
               IN sendBatchWithRetry(S, c, SubSeq(lines, 1, mid), FALSE,
                                     SubSeq(lines, mid + 1, Len(lines)))
          ELSE BatchReturn(onDropBatch(S, lines), c)
     ELSE LET S1 == IF ~shouldRetry(status) THEN onDropBatch(S, lines) ELSE S
          IN IF cy.attempt + 1 > cfg.retries THEN BatchReturn(onDropBatch(S1, lines), c)
             ELSE Backoff(S1, c, status, h, u)

\* sendBatchWithRetry with the drop callback called outside try/catch: a
\* callback that throws rejects the call, and with it the flush cycle.
HttpSettledUncaught(S, c, status, h, u) ==
  LET cy == S.cycles[c]
      lines == cy.lines
      Drop == IF cfg.dropThrows THEN RejectCycle(onDropBatch(S, lines), c)
              ELSE BatchReturn(onDropBatch(S, lines), c)
  IN IF ResOk(status) THEN BatchReturn(S, c)
     ELSE IF status = 413
     THEN IF cy.allowDownshift /\ Len(lines) > 1
          THEN LET mid == Len(lines) \div 2
               IN sendBatchWithRetry(S, c, SubSeq(lines, 1, mid), FALSE,
                                     SubSeq(lines, mid + 1, Len(lines)))
          ELSE Drop
     ELSE IF ~shouldRetry(status) THEN Drop
     ELSE IF cy.attempt + 1 > cfg.retries THEN Drop
     ELSE Backoff(S, c, status, h, u)

\* sendBatchWithRetry with the halves of a 413 split allowed to split again.
HttpSettledSplitAgain(S, c, status, h, u) ==
  LET cy == S.cycles[c]
      lines == cy.lines
  IN IF ResOk(status) THEN BatchReturn(S, c)
     ELSE IF status = 413
     THEN IF Len(lines) > 1
          THEN LET mid == Len(lines) \div 2
               IN sendBatchWithRetry(S, c, SubSeq(lines, 1, mid), TRUE,
                                     SubSeq(lines, mid + 1, Len(lines)))
          ELSE BatchReturn(onDropBatch(S, lines), c)
     ELSE IF ~shouldRetry(status) THEN BatchReturn(onDropBatch(S, lines), c)
     ELSE IF cy.attempt + 1 > cfg.retries THEN BatchReturn(onDropBatch(S, lines), c)
     ELSE Backoff(S, c, status, h, u)

\* HttpSink.sendBatchWithRetry after the awaited fetch settled with `status`.
HttpSettled(S, c, status, h, u) ==
  LET cy == S.cycles[c]
      lines == cy.lines
  IN IF ResOk(status) THEN BatchReturn(S, c)
     ELSE IF status = 413
     THEN IF cy.allowDownshift /\ Len(lines) > 1
          THEN LET mid == Len(lines) \div 2
               IN sendBatchWithRetry(S, c, SubSeq(lines, 1, mid), FALSE,
                                     SubSeq(lines, mid + 1, Len(lines)))
          ELSE BatchReturn(onDropBatch(S, lines), c)
     ELSE IF ~shouldRetry(status) THEN BatchReturn(onDropBatch(S, lines), c)
     ELSE IF cy.attempt + 1 > cfg.retries THEN BatchReturn(onDropBatch(S, lines), c)
     ELSE Backoff(S, c, status, h, u)

\* The catch block of the non-durable flush with a retry of the batch after a
\* retryable failure, as in HttpSink.sendBatchWithRetry.
BrowserSettledRetry(S, c, status) ==
  IF ResOk(status) THEN NextBatch(S, c)
  ELSE IF shouldRetry(status) /\ S.cycles[c].attempt + 1 <= MaxRetries
  THEN sleep([S EXCEPT !.cycles[c].attempt = @ + 1], c, 1)
  ELSE NextBatch(onDropBatch(S, S.cycles[c].lines), c)

\* BrowserSink.flush (non-durable) after the awaited send(body) settled.
BrowserSettled(S, c, status) ==
  IF ResOk(status) THEN NextBatch(S, c)
  ELSE NextBatch(onDropBatch(S, S.cycles[c].lines), c)

\* The durable flush with idbDelete(ids) moved out of the try block, after it:
\* the chunk is deleted whether send(body) threw or not.
DurableSettledDeleteAlways(S, c, status) == [S EXCEPT !.cycles[c].pc = "idbDelete"]

\* BrowserSink.flush (durable) after the awaited send(body) settled: on success
\* idbDelete(ids) is awaited, on failure the catch breaks out of the for loop.
DurableSettled(S, c, status) ==
  IF ResOk(status) THEN [S EXCEPT !.cycles[c].pc = "idbDelete"]
  ELSE LoopTest(S, c)

\* store.delete(id) for the ids of the taken lines
IdbRemove(store, lines) == SelectSeq(store, LAMBDA x : x \notin Range(lines))

\* BrowserSink.flush (durable) after an awaited IndexedDB operation settled:
\* idbBulkAdd(ram), idbTakeBatch(batchSize) or idbDelete(ids).  A failed add or
\* take is thrown out of the cycle; a failed delete is caught (break).
IdbSettled(S, c, ok) ==
  LET cy == S.cycles[c]
  IN IF cy.pc = "idbAdd"
     THEN IF ok THEN idbTakeBatch([S EXCEPT !.idb = @ \o cy.lines], c)
          ELSE RejectCycle(S, c)
     ELSE IF cy.pc = "idbTake"
     THEN IF ok
          THEN LET lines == SplicePrefix(S.idb, cfg.batchSize)
               IN IF Len(lines) = 0 THEN LoopTest(S, c)
                  ELSE send([S EXCEPT !.cycles[c].lines = lines,
                                      !.cycles[c].batches = <<lines>>], c, lines)
          ELSE RejectCycle(S, c)
     ELSE IF ok THEN idbTakeBatch([S EXCEPT !.idb = IdbRemove(@, cy.lines)], c)
          ELSE LoopTest(S, c)

\* sendNow with the drop callback called outside try/catch: a callback that
\* throws rejects the promise of sendNow.
sendNowUncaught(S, lines, status) ==
  IF ResOk(status) THEN [s |-> S, threw |-> FALSE]
  ELSE [s |-> onDropBatch(S, lines), threw |-> cfg.dropThrows]

\* BrowserSink.sendNow after the awaited send(body) settled (immediate mode):
\* the new state and whether the promise of sendNow is rejected.  The drop
\* callback is called inside try/catch.
sendNowSettled(S, lines, status) ==
  IF ResOk(status) THEN [s |-> S, threw |-> FALSE]
  ELSE [s |-> onDropBatch(S, lines), threw |-> FALSE]

\* The promise write() returns in immediate mode, sendNow(...).catch(handler):
\* the handler reports the line (inside try/catch) if sendNow rejected.
writeCatch(n, lines) ==
  IF n.threw THEN [s |-> onDropBatch(n.s, lines), threw |-> FALSE] ELSE n

\* the request of an immediate-mode write settled
ImmediateSettled(S, lines, status) == writeCatch(sendNowSettled(S, lines, status), lines)

\* ------------------------------------------------------------- public calls
\* flush() without the in-flight guard: every call starts a cycle.
flushUnguarded(S) ==
  IF cfg.kind = "immediate" THEN [s |-> S, p |-> 0]
  ELSE IF S.closed /\ S.totalBuffered = 0 /\ cfg.kind # "durable" THEN [s |-> S, p |-> 0]
  ELSE LET c == Len(S.cycles) + 1
           S1 == DrainPass([S EXCEPT !.cycles = Append(@, DoneCycle)], c)
       IN [s |-> [S1 EXCEPT !.flushInFlight = c], p |-> c]

\* flush(): the new state and the promise the call hands back (0: the async
\* function returned without awaiting; c: the promise of cycle c).  A new cycle
\* runs synchronously up to its first await (or to its end) before the
\* assignment to this.flushInFlight takes place.
flush(S) ==
  IF cfg.kind = "immediate" THEN [s |-> S, p |-> 0]
  ELSE IF S.closed /\ S.totalBuffered = 0 /\ cfg.kind # "durable" THEN [s |-> S, p |-> 0]
  ELSE IF S.flushInFlight # 0
  THEN [s |-> [S EXCEPT !.flushRequested = TRUE], p |-> S.flushInFlight]
  ELSE LET c == Len(S.cycles) + 1
           S1 == DrainPass([S EXCEPT !.cycles = Append(@, DoneCycle)], c)
       IN [s |-> [S1 EXCEPT !.flushInFlight = c], p |-> c]

\* The body of write() with the pass-requested line (102-104) left out.
writeOpenNoRequest(S, k, r) ==
  IF cfg.kind = "immediate"
  THEN [s |-> send(S, 0, <<r>>), res |-> "sent", ret |-> "promise"]
  ELSE LET S1 == [S EXCEPT !.keyOrder = IF k \in Range(@) THEN @ ELSE Append(@, k)]
       IN IF S1.totalBuffered >= cfg.maxBuffer /\ cfg.policy = "error"
          THEN [s |-> S1, res |-> "rejected", ret |-> "throw"]
          ELSE LET S3 == [S1 EXCEPT !.buffers[k] = Append(@, r), !.totalBuffered = @ + 1]
               IN IF S3.totalBuffered > cfg.maxBuffer /\ cfg.policy = "auto-flush"
                  THEN [s |-> flush(S3).s, res |-> "accepted", ret |-> "promise"]
                  ELSE IF S3.totalBuffered > cfg.maxBuffer /\ cfg.policy = "drop-oldest"
                  THEN [s |-> dropOldest(S3), res |-> "accepted", ret |-> "void"]
                  ELSE [s |-> S3, res |-> "accepted", ret |-> "void"]

\* The body of write() with the overflow test `>=` in place of `>` (line 106).
writeOpenAtCapacity(S, k, r) ==
  IF cfg.kind = "immediate"
  THEN [s |-> send(S, 0, <<r>>), res |-> "sent", ret |-> "promise"]
  ELSE LET S1 == [S EXCEPT !.keyOrder = IF k \in Range(@) THEN @ ELSE Append(@, k)]
       IN IF S1.totalBuffered >= cfg.maxBuffer /\ cfg.policy = "error"
          THEN [s |-> S1, res |-> "rejected", ret |-> "throw"]
          ELSE LET S2 == [S1 EXCEPT !.buffers[k] = Append(@, r), !.totalBuffered = @ + 1]
                   S3 == IF S2.flushInFlight # 0
                         THEN [S2 EXCEPT !.flushRequested = TRUE] ELSE S2
               IN IF S3.totalBuffered >= cfg.maxBuffer /\ cfg.policy = "auto-flush"
                  THEN [s |-> flush(S3).s, res |-> "accepted", ret |-> "promise"]
                  ELSE IF S3.totalBuffered >= cfg.maxBuffer /\ cfg.policy = "drop-oldest"
                  THEN [s |-> dropOldest(S3), res |-> "accepted", ret |-> "void"]
                  ELSE [s |-> S3, res |-> "accepted", ret |-> "void"]

\* write(sessionId, e) on an open sink, for record r: the new state, what
\* became of the record and what the call returned.
writeOpen(S, k, r) ==
  IF cfg.kind = "immediate"
  THEN [s |-> send(S, 0, <<r>>), res |-> "sent", ret |-> "promise"]
  ELSE LET S1 == [S EXCEPT !.keyOrder = IF k \in Range(@) THEN @ ELSE Append(@, k)]
       IN IF S1.totalBuffered >= cfg.maxBuffer /\ cfg.policy = "error"
          THEN [s |-> S1, res |-> "rejected", ret |-> "throw"]
          ELSE LET S2 == [S1 EXCEPT !.buffers[k] = Append(@, r), !.totalBuffered = @ + 1]
                   S3 == IF S2.flushInFlight # 0
                         THEN [S2 EXCEPT !.flushRequested = TRUE] ELSE S2
               IN IF S3.totalBuffered > cfg.maxBuffer /\ cfg.policy = "auto-flush"
                  THEN [s |-> flush(S3).s, res |-> "accepted", ret |-> "promise"]
                  ELSE IF S3.totalBuffered > cfg.maxBuffer /\ cfg.policy = "drop-oldest"
                  THEN [s |-> dropOldest(S3), res |-> "accepted", ret |-> "void"]
                  ELSE [s |-> S3, res |-> "accepted", ret |-> "void"]

\* write() without the `if (this.closed) return` line.
writeWhenClosed(S, k, r) == writeOpen(S, k, r)

\* write(sessionId, e)
write(S, k, r) ==
  IF S.closed THEN [s |-> S, res |-> "ignored", ret |-> "void"]
  ELSE writeOpen(S, k, r)

\* close() that drains with a cycle of its own instead of going through the
\* guard of flush().
closeOwnCycle(S) ==
  IF S.closed THEN [s |-> S, p |-> 0]
  ELSE flushUnguarded([S EXCEPT !.closed = TRUE, !.timer = FALSE])

\* close() without the `if (this.closed) return` line.
closeAgain(S) == flush([S EXCEPT !.closed = TRUE, !.timer = FALSE])

\* close(): the new state and the promise the call awaits (0: none)
close(S) ==
  IF S.closed THEN [s |-> S, p |-> 0]
  ELSE flush([S EXCEPT !.closed = TRUE, !.timer = FALSE])

\* ------------------------------------------------------------- FileSink
\* mkdirSync(base) and appendFileSync(<base>/<key>.jsonl, chunk): the new state
\* and whether the call threw (an I/O error)
appendFileSync(S, k, lines) ==
  IF S.diskOk THEN [s |-> [S EXCEPT !.files[k] = @ \o lines], threw |-> FALSE]
  ELSE [s |-> S, threw |-> TRUE]

\* flushSession without `this.buffers.set(sessionId, [])`: the lines stay in
\* the buffer after they were appended.
flushSessionKeepBuffer(S, k) ==
  LET buf == S.buffers[k]
  IN IF Len(buf) = 0 THEN [s |-> S, threw |-> FALSE]
     ELSE appendFileSync([S EXCEPT !.totalBuffered = @ - Len(buf)], k, buf)

\* FileSink.flushSession(sessionId): the buffer of the key is replaced by an
\* empty one and the total lowered before the chunk is appended
flushSession(S, k) ==
  LET buf == S.buffers[k]
  IN IF Len(buf) = 0 THEN [s |-> S, threw |-> FALSE]
     ELSE appendFileSync([S EXCEPT !.buffers[k] = <<>>,
                                   !.totalBuffered = @ - Len(buf)], k, buf)

\* FileSink.dropOldest: shift the first non-empty array in Map order
fileDropOldest(S) ==
  LET ne == {i \in DOMAIN S.keyOrder : Len(S.buffers[S.keyOrder[i]]) > 0}
  IN IF ne = {} THEN S
     ELSE LET i == CHOOSE x \in ne : \A y \in ne : x <= y
              k == S.keyOrder[i]
          IN [S EXCEPT !.buffers[k] = Tail(@),
                       !.evicted = @ \cup {Head(S.buffers[k])},
                       !.totalBuffered = Max(0, @ - 1)]

\* FileSink.write(sessionId, e) for record r: the new state, what became of
\* the record and how the call ended ("void": returned, "throw": threw)
fileWrite(S, k, r) ==
  IF cfg.kind = "fileImmediate"
  THEN LET a == appendFileSync(S, k, <<r>>)
       IN [s |-> a.s, res |-> "sent", ret |-> IF a.threw THEN "throw" ELSE "void"]
  ELSE LET S1 == [S EXCEPT !.keyOrder = IF k \in Range(@) THEN @ ELSE Append(@, k),
                           !.buffers[k] = Append(@, r),
                           !.totalBuffered = @ + 1]
       IN IF Len(S1.buffers[k]) >= cfg.batchSize \/ S1.totalBuffered >= cfg.maxBuffer
          THEN LET S2 == IF S1.totalBuffered >= cfg.maxBuffer THEN fileDropOldest(S1)
                         ELSE S1
                   f == flushSession(S2, k)
               IN [s |-> f.s, res |-> "accepted",
                   ret |-> IF f.threw THEN "throw" ELSE "void"]
          ELSE [s |-> S1, res |-> "accepted", ret |-> "void"]

\* for (sid of keys) this.flushSession(sid): a throw ends the loop
RECURSIVE FlushEach(_, _)
FlushEach(S, order) ==
  IF order = <<>> THEN [s |-> S, threw |-> FALSE]
  ELSE LET f == flushSession(S, Head(order))
       IN IF f.threw THEN f ELSE FlushEach(f.s, Tail(order))

\* FileSink.flush(): an async function that awaits nothing; threw: the promise
\* it returns is rejected, else it is fulfilled
fileFlush(S) == FlushEach(S, S.keyOrder)

\* FileSink.close(): clearInterval, then await this.flush()
fileClose(S) == fileFlush([S EXCEPT !.timer = FALSE])

\* the interval callback of FileSink.ensureTimer (a throw is uncaught)
ensureTimer(S) == FlushEach(S, S.keyOrder).s

\* ------------------------------------------------------------- HttpSink (httpSink.ts)
\* fetch(this.endpoint, {method: 'POST', headers, body}) followed by await
legacyFetch(S, c, lines) ==
  [S EXCEPT !.reqLog = Append(@, [lines |-> lines, st |-> "pending", owner |-> c,
                                  keepalive |-> FALSE]),
            !.cycles[c].pc = "fetch"]

\* backoffDelay(attempt), with Math.random() = u / RandDen
backoffDelay(attempt, u) ==
  LET exp == Min(cfg.baseMs * 2 ^ (attempt - 1), cfg.maxMs)
  IN IF ~cfg.jitter THEN exp
     ELSE (exp * (2 * u + RandDen)) \div (2 * RandDen)

\* finally { this.inflight = false }; threw: an onDrop callback threw and the
\* promise of flush() rejects
legacyFinally(S, c, threw) ==
  [S EXCEPT !.inflight = FALSE,
            !.cycles[c].pc = IF threw THEN "rejected" ELSE "done"]

\* HttpSink.flush(): one batch is spliced off the queue and sent.  p: 0 when
\* the call returned without awaiting, else the coroutine whose end resolves
\* the promise.
legacyFlush(S) ==
  IF S.inflight THEN [s |-> S, p |-> 0]
  ELSE IF Len(S.queue) = 0 THEN [s |-> S, p |-> 0]
  ELSE LET c == Len(S.cycles) + 1
           batch == SplicePrefix(S.queue, cfg.batchSize)
           S1 == [S EXCEPT !.inflight = TRUE,
                           !.queue = SpliceRest(@, cfg.batchSize),
                           !.cycles = Append(@, [DoneCycle EXCEPT !.lines = batch,
                                                                  !.drained = Range(batch)])]
       IN [s |-> legacyFetch(S1, c, batch), p |-> c]

\* The retry loop of flush() from the settling of its request (status 0: fetch
\* rejected) to the next await or the end.  A throw of onDrop in the try block
\* lands in the catch block, which calls onDrop again.
legacySettled(S, c, status, u) ==
  LET batch == S.cycles[c].lines
      attempt == S.cycles[c].attempt
  IN IF status # 0 /\ ResOk(status) THEN legacyFinally(S, c, FALSE)
     ELSE IF status # 0 /\ ~(status >= 500 \/ status = 429) THEN legacyFinally(S, c, FALSE)
     ELSE IF attempt >= cfg.retries
     THEN IF cfg.dropThrows
          THEN legacyFinally([S EXCEPT !.dropLog = IF status # 0 THEN @ \o <<batch, batch>>
                                                   ELSE Append(@, batch)], c, TRUE)
          ELSE legacyFinally(onDropBatch(S, batch), c, FALSE)
     ELSE [S EXCEPT !.cycles[c].attempt = attempt + 1,
                    !.cycles[c].delay = backoffDelay(attempt + 1, u),
                    !.cycles[c].pc = "sleep"]

\* HttpSink.write(sessionId, e) of httpSink.ts for record r
legacyWrite(S, k, r) ==
  LET S1 == [S EXCEPT !.queue = Append(@, r)]
      dropped == Len(S1.queue) - cfg.maxBuffer
      S2 == IF dropped > 0
            THEN [S1 EXCEPT !.queue = SpliceRest(@, dropped),
                            !.evicted = @ \cup Range(SplicePrefix(S1.queue, dropped)),
                            !.dropLog = Append(@, SplicePrefix(S1.queue, dropped))]
            ELSE S1
  IN IF dropped > 0 /\ cfg.dropThrows
     THEN [s |-> S2, res |-> "accepted", ret |-> "throw"]
     ELSE IF Len(S2.queue) >= cfg.batchSize
     THEN [s |-> legacyFlush(S2).s, res |-> "accepted", ret |-> "void"]
     ELSE [s |-> S2, res |-> "accepted", ret |-> "void"]

\* HttpSink.close() of httpSink.ts: clearInterval, then await this.flush()
legacyClose(S) == legacyFlush([S EXCEPT !.timer = FALSE])

\* ------------------------------------------------------------- Tracer
\* An event is the sequence of the middlewares that changed it (the base event
\* is <<>>); NullEvent stands for null.
NullEvent == <<0>>
Helpers == {"message", "toolCall", "toolResult", "usage", "spanEnd"}
\* what a middleware does with an event: return it, return a changed event,
\* return null, or throw (or return a promise that settles so)
Outcomes == {"keep", "change", "null", "throw"}

\* the value m(event) yields for the i-th middleware, "throw" aside
Returned(i, event, o) ==
  IF o = "null" THEN NullEvent
  ELSE IF o = "change" THEN Append(event, i)
  ELSE event

\* The loop of compose without `if (event === null) return null`.
composeNoShortCircuit(S, e, i, event, o) ==
  IF i > cfg.middlewares
  THEN [S EXCEPT !.emits[e].pc = "then", !.emits[e].out = event]
  ELSE [S EXCEPT !.mwCalls = Append(@, [emit |-> e, m |-> i, input |-> event, o |-> o,
                                        ret |-> Returned(i, event, o)]),
                 !.emits[e].pc = "mw",
                 !.emits[e].i = i]

\* The loop of the function compose(mw) returns, from its i-th iteration with
\* the current event up to the next await or the return: the i-th middleware
\* is called (o: what it does) and awaited, or the function returns `event`
\* and the then-callback of the caller is queued.
compose(S, e, i, event, o) ==
  IF i > cfg.middlewares
  THEN [S EXCEPT !.emits[e].pc = "then", !.emits[e].out = event]
  ELSE IF event = NullEvent
  THEN [S EXCEPT !.emits[e].pc = "then", !.emits[e].out = NullEvent]
  ELSE [S EXCEPT !.mwCalls = Append(@, [emit |-> e, m |-> i, input |-> event, o |-> o,
                                        ret |-> Returned(i, event, o)]),
                 !.emits[e].pc = "mw",
                 !.emits[e].i = i]

\* the last middleware invocation of emission e (the one it awaits)
Awaited(S, e) ==
  LET js == {j \in DOMAIN S.mwCalls : S.mwCalls[j].emit = e}
  IN S.mwCalls[CHOOSE j \in js : \A j2 \in js : j2 <= j]

\* `event = await m(event)` completes: a throw rejects the promise of the
\* pipeline (no then-callback runs), else the loop goes on.
composeResume(S, e, o) ==
  LET a == Awaited(S, e)
  IN IF a.o = "throw" THEN [S EXCEPT !.emits[e].pc = "rejected"]
     ELSE compose(S, e, S.emits[e].i + 1, a.ret, o)

\* Tracer.emit (through message, toolCall, toolResult, usage) and
\* Tracer.spanEnd up to the return: the event is built and this.runMw called.
emit(S, h, o) ==
  LET e == Len(S.emits) + 1
  IN compose([S EXCEPT !.emits = Append(@, [helper |-> h, pc |-> "start", i |-> 0,
                                            out |-> <<>>, nwrites |-> 0, arg |-> <<>>,
                                            ret |-> "none", handle |-> 0])],
             e, 1, <<>>, o)

\* The then-callback of emit, `(x) => { if (x) return this.sink.write(...) }`,
\* for the r-th write of the sink: the promise of emit follows the value
\* write returned.  w: the write as the sink carried it out.
emitThen(S, e, w) ==
  IF S.emits[e].out = NullEvent THEN [S EXCEPT !.emits[e].pc = "resolved"]
  ELSE [w.s EXCEPT !.emits[e].nwrites = @ + 1,
                   !.emits[e].arg = S.emits[e].out,
                   !.emits[e].ret = w.ret,
                   !.emits[e].handle = IF w.ret = "promise" THEN w.s.flushInFlight ELSE 0,
                   !.emits[e].pc = IF w.ret = "throw" THEN "rejected"
                                   ELSE IF w.ret = "promise" THEN "write"
                                   ELSE "resolved"]

\* The then-callback of spanEnd, `(x) => { if (x) this.sink.write(...) }`: it
\* returns undefined whatever write returned.
spanEndThen(S, e, w) ==
  IF S.emits[e].out = NullEvent THEN [S EXCEPT !.emits[e].pc = "resolved"]
  ELSE [w.s EXCEPT !.emits[e].nwrites = @ + 1,
                   !.emits[e].arg = S.emits[e].out,
                   !.emits[e].ret = w.ret,
                   !.emits[e].handle = IF w.ret = "promise" THEN w.s.flushInFlight ELSE 0,
                   !.emits[e].pc = IF w.ret = "throw" THEN "rejected" ELSE "resolved"]

\* ------------------------------------------------------------- actions
\* The retry delays are 1 ms without jitter, no drop callback throws, the
\* BrowserSink has an endpoint and the user agent has no sendBeacon.
AllConfigs ==
  [kind : Kinds, policy : Policies, batchSize : 1..MaxBatchSize,
   maxBuffer : 1..MaxCapacity, retries : 0..MaxRetries,
   baseMs : {1}, maxMs : {1}, jitter : {FALSE}, dropThrows : {FALSE},
   endpoint : {TRUE}, canBeacon : {FALSE}, beaconMax : {0}]

\* Options a sink does not read are fixed.
Configs ==
  {c \in AllConfigs :
     /\ c.kind # "durable"
     /\ c.kind = "http" => c.retries = MaxRetries
     /\ c.kind = "browser" => c.retries = 0
     /\ c.kind = "immediate" =>
          c.policy = "auto-flush" /\ c.batchSize = 1 /\ c.maxBuffer = 1 /\ c.retries = 0}

\* the durable BrowserSink, with an endpoint and without one
DurableConfigs ==
  LET cs == {c \in AllConfigs :
               c.kind = "durable" /\ c.policy = "auto-flush" /\ c.maxBuffer = MaxCapacity
                 /\ c.retries = 0}
  IN cs \cup {[c EXCEPT !.endpoint = FALSE] : c \in cs}

\* the state after construction with options from cs
Constructed(cs) ==
  /\ cfg \in cs
  /\ keyOrder = <<>>
  /\ buffers = [k \in Keys |-> <<>>]
  /\ totalBuffered = 0
  /\ flushInFlight = 0
  /\ flushRequested = FALSE
  /\ closed = FALSE
  /\ timer = (cfg.kind \notin {"immediate", "fileImmediate"})
  /\ cycles = <<>>
  /\ reqLog = <<>>
  /\ dropLog = <<>>
  /\ evicted = {}
  /\ idb = <<>>
  /\ sendLog = <<>>
  /\ beaconQuota \in (IF cfg.canBeacon THEN 0..MaxBeacons ELSE {0})
  /\ files = [k \in Keys |-> <<>>]
  /\ diskOk = TRUE
  /\ queue = <<>>
  /\ inflight = FALSE
  /\ emits = <<>>
  /\ mwCalls = <<>>
  /\ writes = <<>>
  /\ calls = <<>>

Init == Constructed(Configs)

\* the cycle executing when a call is made (0: none)
Current == IF Running(St) = {} THEN 0 ELSE CHOOSE c \in Running(St) : TRUE

\* sink.write(k, e).  Keys are interchangeable (the code never inspects a key),
\* so the first call is made with "s1".
Write(k) ==
  /\ Len(writes) < (IF cfg.kind = "durable" THEN MaxDurableRecs ELSE MaxRecs)
  /\ writes = <<>> => k = "s1"
  /\ LET w == write(St, k, Len(writes) + 1)
     IN /\ Apply(w.s)
        /\ writes' = Append(writes, [key |-> k, res |-> w.res, ret |-> w.ret,
                                     during |-> Current, late |-> closed])
  /\ UNCHANGED <<cfg, calls>>

\* A call whose promise the caller keeps (obs) is recorded with the promise it
\* was handed, the number of writes made before it and the cycle then running.
Observe(obs, op, p) ==
  IF obs
  THEN /\ Len(calls) < MaxCalls
       /\ calls' = Append(calls, [op |-> op, p |-> p, snap |-> Len(writes),
                                  during |-> Current, wasClosed |-> closed])
  ELSE UNCHANGED calls

\* sink.flush()
Flush(obs) ==
  /\ LET f == flush(St)
     IN Apply(f.s) /\ Observe(obs, "flush", f.p)
  /\ UNCHANGED <<cfg, writes>>

\* No coroutine is waiting in the microtask queue: the event loop takes the
\* next timer, event or response only then.
NoMicrotask == \A c \in DOMAIN cycles : cycles[c].pc \notin {"sent", "sleep0"}

\* setInterval(() => void this.flush())
Tick ==
  /\ timer
  /\ NoMicrotask
  /\ Apply(flush(St).s)
  /\ UNCHANGED <<cfg, writes, calls>>

\* pagehide / beforeunload / visibilitychange handlers of BrowserSink
ExitHook ==
  /\ cfg.kind \in {"browser", "durable", "immediate"}
  /\ ~closed
  /\ NoMicrotask
  /\ Apply(flush(St).s)
  /\ UNCHANGED <<cfg, writes, calls>>

\* sink.close()
Close(obs) ==
  /\ LET f == close(St)
     IN Apply(f.s) /\ Observe(obs, "close", f.p)
  /\ UNCHANGED <<cfg, writes>>

\* The promise of observed call i is resolved: at once when the call awaited
\* nothing, else when the promise of the cycle it was handed is.
Resolved(i) == IF calls[i].p = 0 THEN TRUE ELSE cycles[calls[i].p].pc = "done"

\* An outstanding request settles with a status; its coroutine runs on to its
\* next await.
\* h: the Retry-After header of the response; u: the value Math.random()
\* returns if the backoff is computed with jitter.
Settled(S, i, status, h, u) ==
  LET c == S.reqLog[i].owner
      S1 == [S EXCEPT !.reqLog[i].st = IF ResOk(status) THEN "ok" ELSE "fail"]
  IN IF c = 0 THEN ImmediateSettled(S1, S.reqLog[i].lines, status).s
     ELSE IF cfg.kind = "http" THEN HttpSettled(S1, c, status, h, u)
     ELSE IF cfg.kind = "durable" THEN DurableSettled(S1, c, status)
     ELSE BrowserSettled(S1, c, status)

ResponseWith(i, status, h, u) ==
  /\ reqLog[i].st = "pending"
  /\ NoMicrotask
  /\ Apply(Settled(St, i, status, h, u))
  /\ UNCHANGED <<cfg, writes, calls>>

\* a response without a Retry-After header
Response(i, status) == ResponseWith(i, status, NoHeader, 0)

\* The backoff sleep of sendBatchWithRetry ends: the same batch is sent again.
Wake(c) ==
  /\ cycles[c].pc = "sleep"
  /\ NoMicrotask
  /\ Apply(fetch([St EXCEPT !.cycles[c].delay = 0], c, cycles[c].lines))
  /\ UNCHANGED <<cfg, writes, calls>>

\* An IndexedDB operation awaited by the durable flush completes or fails.
IdbSettle(c, ok) ==
  /\ cycles[c].pc \in {"idbAdd", "idbTake", "idbDelete"}
  /\ NoMicrotask
  /\ Apply(IdbSettled(St, c, ok))
  /\ UNCHANGED <<cfg, writes, calls>>

\* The continuation of a coroutine whose await had nothing to wait for:
\* send(body) returned (no endpoint, or the beacon took the payload), or
\* sleep(0).
Continue(S, c) ==
  IF S.cycles[c].pc = "sleep0" THEN fetch(S, c, S.cycles[c].lines)
  ELSE IF cfg.kind = "durable" THEN [S EXCEPT !.cycles[c].pc = "idbDelete"]
  ELSE NextBatch(S, c)

Microtask(c) ==
  /\ cycles[c].pc \in {"sent", "sleep0"}
  /\ Apply(Continue(St, c))
  /\ UNCHANGED <<cfg, writes, calls>>

\* the calls and the transport, common to every sink
Calls ==
  \/ \E k \in Keys : Write(k)
  \/ \E obs \in BOOLEAN : Flush(obs)
  \/ Tick
  \/ ExitHook
  \/ \E obs \in BOOLEAN : Close(obs)
  \/ \E i \in DOMAIN reqLog, status \in Statuses : Response(i, status)

\* HttpSink, and BrowserSink without the durable queue
Next ==
  \/ Calls
  \/ \E c \in DOMAIN cycles : Wake(c)

Spec == Init /\ [][Next]_vars

\* BrowserSink with durable 'idb'
InitDurable == Constructed(DurableConfigs)

NextDurable ==
  \/ Calls
  \/ \E c \in DOMAIN cycles, ok \in BOOLEAN : IdbSettle(c, ok)
  \/ \E c \in DOMAIN cycles : Microtask(c)

SpecDurable == InitDurable /\ [][NextDurable]_vars

\* HttpSink with retry options, response headers and jitter, and BrowserSink
\* (buffered and immediate) with and without endpoint and sendBeacon; no
\* overflow (maxBuffer = MaxRecs); the drop callback throws.
TransportConfigs ==
  [kind : {"http"}, policy : {"auto-flush"}, batchSize : {1, MaxRecs},
   maxBuffer : {MaxRecs}, retries : {0, MaxRetries + 1},
   baseMs : {300}, maxMs : {500}, jitter : BOOLEAN, dropThrows : {TRUE},
   endpoint : {TRUE}, canBeacon : {FALSE}, beaconMax : {0}]
  \cup
  [kind : {"browser", "immediate"}, policy : {"auto-flush"}, batchSize : {1},
   maxBuffer : {MaxRecs}, retries : {0},
   baseMs : {1}, maxMs : {1}, jitter : {FALSE}, dropThrows : {TRUE},
   endpoint : BOOLEAN, canBeacon : BOOLEAN, beaconMax : {4}]

InitTransport == Constructed(TransportConfigs)

\* The inputs the code reads: the Retry-After header of a response that is
\* not ok (the BrowserSink reads none), Math.random() when a backoff with
\* jitter can be computed.
HeadersOf(status) ==
  IF cfg.kind = "http" /\ status # 0 /\ ~ResOk(status) THEN RetryAfterHeaders
  ELSE {NoHeader}
RandomOf(status) ==
  IF cfg.kind = "http" /\ cfg.jitter /\ shouldRetry(status) THEN 0..(RandDen - 1)
  ELSE {0}

\* The caller writes under one key and keeps no promise; timer ticks and exit
\* hooks are flush() calls.
NextTransport ==
  \/ Write("s1")
  \/ Flush(FALSE)
  \/ Close(FALSE)
  \/ \E i \in DOMAIN reqLog, status \in TransportStatuses :
       \E h \in HeadersOf(status), u \in RandomOf(status) : ResponseWith(i, status, h, u)
  \/ \E c \in DOMAIN cycles : Wake(c)
  \/ \E c \in DOMAIN cycles : Microtask(c)

SpecTransport == InitTransport /\ [][NextTransport]_vars

\* ------------------------------------------------------------- FileSink
FileKinds == {"file", "fileImmediate"}

\* a batchSize or maxBuffer that MaxRecs writes never reach
Large == MaxRecs + 1

\* The options as the FileSink constructor stores them: batchSize at least 1,
\* maxBuffer at least batchSize.  It reads no other option.
FileOptions(kind, b, m) ==
  [kind |-> kind, policy |-> "auto-flush", batchSize |-> Max(1, b),
   maxBuffer |-> Max(Max(1, b), m), retries |-> 0, baseMs |-> 1, maxMs |-> 1,
   jitter |-> FALSE, dropThrows |-> FALSE, endpoint |-> FALSE, canBeacon |-> FALSE,
   beaconMax |-> 0]

FileConfigs ==
  {FileOptions("file", b, m) : b \in (1..MaxBatchSize) \cup {Large},
                               m \in (1..MaxCapacity) \cup {Large}}
    \cup {FileOptions("fileImmediate", Large, Large)}

InitFile == Constructed(FileConfigs)

\* sink.write(k, e) on a FileSink
FileWrite(k) ==
  /\ Len(writes) < MaxRecs
  /\ writes = <<>> => k = "s1"
  /\ LET w == fileWrite(St, k, Len(writes) + 1)
     IN /\ Apply(w.s)
        /\ writes' = Append(writes, [key |-> k, res |-> w.res, ret |-> w.ret,
                                     during |-> 0, late |-> FALSE])
  /\ UNCHANGED <<cfg, calls>>

\* An observed call of a FileSink: its promise is settled when the call
\* returns, rejected if the call threw.
ObserveFile(obs, op, threw) ==
  IF obs
  THEN /\ Len(calls) < MaxCalls
       /\ calls' = Append(calls, [op |-> op, p |-> 0, snap |-> Len(writes),
                                  during |-> 0, wasClosed |-> FALSE, threw |-> threw])
  ELSE UNCHANGED calls

\* sink.flush() on a FileSink
FileFlush(obs) ==
  /\ LET f == fileFlush(St)
     IN Apply(f.s) /\ ObserveFile(obs, "flush", f.threw)
  /\ UNCHANGED <<cfg, writes>>

\* sink.close() on a FileSink
FileClose(obs) ==
  /\ LET f == fileClose(St)
     IN Apply(f.s) /\ ObserveFile(obs, "close", f.threw)
  /\ UNCHANGED <<cfg, writes>>

\* the interval timer of a buffered FileSink fires
FileTick ==
  /\ timer
  /\ Apply(ensureTimer(St))
  /\ UNCHANGED <<cfg, writes, calls>>

\* the disk starts or stops failing
Disk(ok) ==
  /\ diskOk # ok
  /\ Apply([St EXCEPT !.diskOk = ok])
  /\ UNCHANGED <<cfg, writes, calls>>

NextFile ==
  \/ \E k \in Keys : FileWrite(k)
  \/ \E obs \in BOOLEAN : FileFlush(obs)
  \/ \E obs \in BOOLEAN : FileClose(obs)
  \/ FileTick
  \/ \E ok \in BOOLEAN : Disk(ok)

SpecFile == InitFile /\ [][NextFile]_vars

\* ------------------------------------------------------------- HttpSink (httpSink.ts)
\* The options as the constructor of httpSink.ts stores them: batchSize at
\* least 1, maxBuffer at least batchSize.
LegacyOptions(b, m, n, j, t) ==
  [kind |-> "legacy", policy |-> "drop-oldest", batchSize |-> Max(1, b),
   maxBuffer |-> Max(Max(1, b), m), retries |-> n, baseMs |-> 250, maxMs |-> 4000,
   jitter |-> j, dropThrows |-> t, endpoint |-> TRUE, canBeacon |-> FALSE,
   beaconMax |-> 0]

\* (retry.jitter is read only when a request is retried)
LegacyConfigs ==
  {c \in {LegacyOptions(b, m, n, j, t) : b \in 1..MaxBatchSize, m \in 1..MaxCapacity,
                                         n \in 0..MaxRetries, j \in BOOLEAN,
                                         t \in BOOLEAN} :
     c.retries = 0 => ~c.jitter}

InitLegacy == Constructed(LegacyConfigs)

\* sink.write(k, e)
LegacyWrite(k) ==
  /\ Len(writes) < MaxRecs
  /\ writes = <<>> => k = "s1"
  /\ LET w == legacyWrite(St, k, Len(writes) + 1)
     IN /\ Apply(w.s)
        /\ writes' = Append(writes, [key |-> k, res |-> w.res, ret |-> w.ret,
                                     during |-> Current, late |-> FALSE])
  /\ UNCHANGED <<cfg, calls>>

\* sink.flush()
LegacyFlush(obs) ==
  /\ LET f == legacyFlush(St)
     IN Apply(f.s) /\ Observe(obs, "flush", f.p)
  /\ UNCHANGED <<cfg, writes>>

\* sink.close()
LegacyClose(obs) ==
  /\ LET f == legacyClose(St)
     IN Apply(f.s) /\ Observe(obs, "close", f.p)
  /\ UNCHANGED <<cfg, writes>>

\* setInterval(() => void this.flush())
LegacyTick ==
  /\ timer
  /\ Apply(legacyFlush(St).s)
  /\ UNCHANGED <<cfg, writes, calls>>

\* the request of a flush settles
LegacyResponse(i, status, u) ==
  /\ reqLog[i].st = "pending"
  /\ Apply(legacySettled([St EXCEPT !.reqLog[i].st = IF ResOk(status) THEN "ok" ELSE "fail"],
                         reqLog[i].owner, status, u))
  /\ UNCHANGED <<cfg, writes, calls>>

\* the timer of the backoff delay fires: the body is posted again
LegacyWake(c) ==
  /\ cycles[c].pc = "sleep"
  /\ Apply(legacyFetch([St EXCEPT !.cycles[c].delay = 0], c, cycles[c].lines))
  /\ UNCHANGED <<cfg, writes, calls>>

NextLegacy ==
  \/ \E k \in Keys : LegacyWrite(k)
  \/ \E obs \in BOOLEAN : LegacyFlush(obs)
  \/ \E obs \in BOOLEAN : LegacyClose(obs)
  \/ LegacyTick
  \/ \E i \in DOMAIN reqLog, status \in Statuses :
       \E u \in (IF cfg.jitter THEN 0..(RandDen - 1) ELSE {0}) : LegacyResponse(i, status, u)
  \/ \E c \in DOMAIN cycles : LegacyWake(c)

SpecLegacy == InitLegacy /\ [][NextLegacy]_vars

\* ------------------------------------------------------------- Tracer
\* A Tracer with 0..MaxMiddlewares middlewares whose sink is a guarded
\* HttpSink that overflows at the second pending record.
TracerConfigs ==
  [kind : {"http"}, policy : Policies, batchSize : {1}, maxBuffer : {1}, retries : {0},
   baseMs : {1}, maxMs : {1}, jitter : {FALSE}, dropThrows : {FALSE},
   endpoint : {TRUE}, canBeacon : {FALSE}, beaconMax : {0},
   middlewares : 0..MaxMiddlewares]

InitTracer == Constructed(TracerConfigs)

\* tracer.message(..), .toolCall(..), .toolResult(..), .usage(..) or .spanEnd(..)
Emit(h, o) ==
  /\ Len(emits) < MaxEmits
  /\ Apply(emit(St, h, o))
  /\ UNCHANGED <<cfg, writes, calls>>

\* the middleware awaited by the pipeline of emission e has settled
MwReturn(e, o) ==
  /\ emits[e].pc = "mw"
  /\ Apply(composeResume(St, e, o))
  /\ UNCHANGED <<cfg, writes, calls>>

\* The pipeline of emission e has resolved and its then-callback runs; the
\* session id of the tracer is "s1".
Then(e) ==
  /\ emits[e].pc = "then"
  /\ LET w == write(St, "s1", Len(writes) + 1)
         S1 == IF emits[e].helper = "spanEnd" THEN spanEndThen(St, e, w)
               ELSE emitThen(St, e, w)
     IN /\ Apply(S1)
        /\ writes' = IF emits[e].out = NullEvent THEN writes
                     ELSE Append(writes, [key |-> "s1", res |-> w.res, ret |-> w.ret,
                                          during |-> Current, late |-> closed])
  /\ UNCHANGED <<cfg, calls>>

\* the promise write returned to emit is resolved, and with it the promise of emit
Adopt(e) ==
  /\ emits[e].pc = "write"
  /\ cycles[emits[e].handle].pc = "done"
  /\ Apply([St EXCEPT !.emits[e].pc = "resolved"])
  /\ UNCHANGED <<cfg, writes, calls>>

NextTracer ==
  \/ \E h \in Helpers, o \in Outcomes : Emit(h, o)
  \/ \E e \in DOMAIN emits, o \in Outcomes : MwReturn(e, o)
  \/ \E e \in DOMAIN emits : Then(e)
  \/ \E e \in DOMAIN emits : Adopt(e)
  \/ Tick
  \/ \E i \in DOMAIN reqLog, status \in Statuses : Response(i, status)

SpecTracer == InitTracer /\ [][NextTracer]_vars

\* The timer keeps firing while it is armed, every request settles and every
\* backoff sleep ends; one HttpSink and one BrowserSink configuration.
InitFair ==
  Constructed({c \in Configs :
                 /\ c.kind \in {"http", "browser"}
                 /\ c.policy = "auto-flush"
                 /\ c.batchSize = 1
                 /\ c.maxBuffer = MaxCapacity})

FairSpec ==
  /\ InitFair
  /\ [][Next]_vars
  /\ WF_vars(Tick)
  /\ WF_vars(\E i \in DOMAIN reqLog, status \in Statuses : Response(i, status))
  /\ WF_vars(\E c \in DOMAIN cycles : Wake(c))

\* An HttpSink whose batches can be split, with every request settling and
\* every backoff sleep ending.
InitOccupation ==
  Constructed({c \in Configs :
                 /\ c.kind = "http"
                 /\ c.policy = "auto-flush"
                 /\ c.batchSize = MaxBatchSize
                 /\ c.maxBuffer = MaxCapacity})

\* the caller writes under one key and keeps no promise
NextOccupation ==
  \/ Write("s1")
  \/ Flush(FALSE)
  \/ \E i \in DOMAIN reqLog, status \in Statuses : Response(i, status)
  \/ \E c \in DOMAIN cycles : Wake(c)

FairOccupation ==
  /\ InitOccupation
  /\ [][NextOccupation]_vars
  /\ WF_vars(\E i \in DOMAIN reqLog, status \in Statuses : Response(i, status))
  /\ WF_vars(\E c \in DOMAIN cycles : Wake(c))

\* ------------------------------------------------------------- batchSize as given
\* The constructors of the guarded HttpSink and of BrowserSink store
\* opts.batchSize unchanged: 0 is a configuration like any other.  maxBuffer
\* is beyond the number of writes, so that write() starts no flush.
DrainConfigs ==
  [kind : {"http", "browser"}, policy : {"auto-flush"}, batchSize : 0..MaxBatchSize,
   maxBuffer : {Large}, retries : {0}, baseMs : {1}, maxMs : {1}, jitter : {FALSE},
   dropThrows : {FALSE}, endpoint : {TRUE}, canBeacon : {FALSE}, beaconMax : {0}]

InitDrain == Constructed(DrainConfigs)

\* a coroutine is inside a drainBatches call that does not return: the thread
\* never gets back to the event loop
Hung == \E c \in DOMAIN cycles : cycles[c].pc = "drain"

\* sink.flush() reaches the loop of drainBatches
ReachesDrain ==
  /\ ~(closed /\ totalBuffered = 0)
  /\ flushInFlight = 0
  /\ totalBuffered # 0

\* While the thread is inside such a call nothing else runs: no call is made
\* and no callback is delivered.
DrainWrite(k) == ~Hung /\ Write(k)

\* sink.flush(): as Flush, unless the drain it starts does not return; then
\* the coroutine stays in drainBatches and the assignment to flushInFlight is
\* never reached.
DrainFlush(obs) ==
  /\ ~Hung
  /\ IF ReachesDrain /\ drainLoops(buffers, keyOrder, cfg.batchSize)
     THEN /\ Apply([St EXCEPT !.cycles = Append(@, [DoneCycle EXCEPT !.pc = "drain"])])
          /\ UNCHANGED <<cfg, writes, calls>>
     ELSE Flush(obs)

DrainResponse(i, status) == ~Hung /\ Response(i, status)

NextDrain ==
  \/ \E k \in Keys : DrainWrite(k)
  \/ \E obs \in BOOLEAN : DrainFlush(obs)
  \/ \E i \in DOMAIN reqLog, status \in Statuses : DrainResponse(i, status)

SpecDrain == InitDrain /\ [][NextDrain]_vars

\* ------------------------------------------------------------- observations
\* the sinks with a flush guard; those that deliver from the in-memory buffer
Guarded == cfg.kind \in {"http", "browser", "durable"}
NonDurable == cfg.kind \in {"http", "browser"}

\* records whose write() appended them to a buffer
Accepted == {r \in DOMAIN writes : writes[r].res = "accepted"}

OkRequests(r) == {i \in DOMAIN reqLog : reqLog[i].st = "ok" /\ r \in Range(reqLog[i].lines)}
DropReports(r) == {i \in DOMAIN dropLog : r \in Range(dropLog[i])}
Requested(r) == {i \in DOMAIN reqLog : r \in Range(reqLog[i].lines)}
Outstanding == {i \in DOMAIN reqLog : reqLog[i].st = "pending"}

\* delivered by a successful request, or reported dropped
ResolvedRecs == {r \in DOMAIN writes : OkRequests(r) # {} \/ DropReports(r) # {}}

\* records a cycle has drained and not yet seen resolved
PendingOf(c) == Range(Flatten(cycles[c].batches))

\* records drained by a cycle whose delivery is neither made nor given up
StillPending == UNION {PendingOf(c) : c \in Running(St)}

\* this step moves records from the buffer into a batch list
DrainStep == \E r \in Buffered(St) : r \notin Buffered(St)' /\ r \notin evicted'

\* ------------------------------------------------------------- claims
\* C1: single-flight flush.  At most one flush cycle is executing per sink at
\* any time, and no drain takes records out of the buffer while deliveries of a
\* previously drained batch list are still pending.
C1_SingleFlight ==
  /\ [](Cardinality(Running(St)) <= 1)
  /\ [][DrainStep => \A c \in Running(St) : PendingOf(c) \cap StillPending' = {}]_vars

\* a flush() call found a cycle executing, joined it, and the cycle still runs
C1_Witness ==
  /\ Guarded
  /\ \E i \in DOMAIN calls :
       /\ calls[i].op = "flush"
       /\ calls[i].during # 0
       /\ calls[i].during \in Running(St)
       /\ Len(writes) > calls[i].snap

\* C2: eventual drain.  With the timer firing and every request settling,
\* every record pending in the buffer of a guarded sink eventually leaves it
\* (drained into a pass, or evicted by drop-oldest).
C2_EventualDrain ==
  \A r \in 1..MaxRecs : (Guarded /\ r \in Buffered(St)) ~> (r \notin Buffered(St))

\* C3: flush() postcondition.  When the promise of a flush() call is resolved,
\* every record written before the call (and not evicted) has been delivered
\* or reported dropped, and none is still in the buffer.
C3_FlushPost ==
  \A i \in DOMAIN calls :
    (NonDurable /\ calls[i].op = "flush" /\ Resolved(i)) =>
      \A r \in Accepted \ evicted :
        r <= calls[i].snap => (r \in ResolvedRecs /\ r \notin Buffered(St))

\* C4: close() postcondition.  When the promise of a close() call is resolved,
\* the buffer is empty, no cycle is running and no request is outstanding.
C4_ClosePost ==
  \A i \in DOMAIN calls :
    (NonDurable /\ calls[i].op = "close" /\ Resolved(i)) =>
      /\ Buffered(St) = {}
      /\ totalBuffered = 0
      /\ Running(St) = {}
      /\ Outstanding = {}

\* C5: frozen after close.  A write() made after close() changes no field of
\* the sink, returns nothing, and its record never reaches a buffer or a
\* request, whatever is called afterwards.
C5_FrozenAfterClose ==
  /\ [][(closed /\ Len(writes') > Len(writes)) =>
          /\ UNCHANGED <<keyOrder, buffers, totalBuffered, flushInFlight, flushRequested,
                         closed, timer, cycles, reqLog, dropLog, evicted>>
          /\ writes'[Len(writes')].ret = "void"]_vars
  /\ [](\A r \in DOMAIN writes :
          writes[r].late => (r \notin Buffered(St) /\ Requested(r) = {}))

\* a write was made after close() and flush() was called after that write
C5_Witness ==
  \E r \in DOMAIN writes, i \in DOMAIN calls :
    /\ writes[r].late
    /\ calls[i].op = "flush"
    /\ calls[i].snap >= r
    /\ reqLog # <<>>

\* the observed call made by this step, when it makes one
NewCall == calls'[Len(calls')]
CallStep(op) == Len(calls') > Len(calls) /\ NewCall.op = op

\* C6: idempotence of close.  A close() call on a sink that is already closed
\* (after or while the first close is in progress) changes nothing: no cycle is
\* started, no pass is requested, no request is issued; its promise is resolved.
C6_CloseIdempotent ==
  [][(closed /\ CallStep("close")) =>
       /\ UNCHANGED <<keyOrder, buffers, totalBuffered, flushInFlight, flushRequested,
                      closed, timer, cycles, reqLog, dropLog, evicted>>
       /\ Resolved(Len(calls))']_vars

\* close() was called a second time while the drain of the first was in flight
C6_Witness ==
  \E i \in DOMAIN calls :
    /\ calls[i].op = "close"
    /\ calls[i].wasClosed
    /\ calls[i].during # 0
    /\ Guarded

\* C7: joining a running cycle.  A flush() call made while a cycle is running
\* starts no cycle, marks "pass requested" and is handed the promise of the
\* running cycle, so it resolves only after that cycle has completed.
C7_JoinRunningCycle ==
  [][(Guarded /\ CallStep("flush") /\ Running(St) # {}) =>
       /\ Len(cycles') = Len(cycles)
       /\ flushRequested'
       /\ NewCall.p \in Running(St)]_vars

\* records a pass of cycle c has taken out of the buffer
DrainedBy(c) == cycles[c].drained

\* C8 as stated: a record written while cycle c awaits a delivery marks "pass
\* requested" (the flag stays set while the record is pending), and c has
\* drained and sent the record by the time c's promise resolves.
C8_WriteDuringFlushAlways ==
  \A r \in Accepted :
    LET c == writes[r].during
    IN (Guarded /\ c # 0) =>
         /\ (c \in Running(St) /\ r \in Buffered(St)) => flushRequested
         /\ cycles[c].pc = "done" => r \in DrainedBy(c)

\* C8, amended: the same for every such record that drop-oldest has not evicted.
C8_WriteDuringFlush ==
  \A r \in Accepted \ evicted :
    LET c == writes[r].during
    IN (Guarded /\ c # 0) =>
         /\ (c \in Running(St) /\ r \in Buffered(St)) => flushRequested
         /\ cycles[c].pc = "done" => r \in DrainedBy(c)

\* a record written during a cycle was sent by an extra pass of that cycle,
\* which has finished
C8_Witness ==
  \E r \in Accepted :
    /\ Guarded
    /\ writes[r].during # 0
    /\ cycles[writes[r].during].pc = "done"
    /\ r \in DrainedBy(writes[r].during)
    /\ r \in ResolvedRecs

\* the lines of the successful requests, in request order
RECURSIVE DeliveredLines(_)
DeliveredLines(log) ==
  IF log = <<>> THEN <<>>
  ELSE (IF Head(log).st = "ok" THEN Head(log).lines ELSE <<>>) \o DeliveredLines(Tail(log))

\* C9: per-key order.  Records of one key are delivered in write order: in
\* the sequence of delivered lines a record of a key never follows a record
\* of the same key that was written after it.
C9_PerKeyOrder ==
  LET d == DeliveredLines(reqLog)
  IN \A i, j \in DOMAIN d :
       (i < j /\ writes[d[i]].key = writes[d[j]].key) => d[i] < d[j]

\* writes 1,2,3 of one key with batchSize 2 were delivered as [1,2] then [3]
C9_Witness ==
  /\ cfg.batchSize = 2
  /\ \A r \in 1..3 : r \in DOMAIN writes /\ writes[r].key = "s1"
  /\ \E i, j \in DOMAIN reqLog :
       /\ i < j
       /\ reqLog[i].st = "ok" /\ reqLog[i].lines = <<1, 2>>
       /\ reqLog[j].st = "ok" /\ reqLog[j].lines = <<3>>

\* C10: no duplicate and no silent loss after a drain (HttpSink).  A record is
\* never in two successful requests, in two drop reports, or in both; once
\* the cycle that drained it is through with its batch the record is in
\* exactly one successful request or exactly one drop report.
C10_ExactlyOnce ==
  cfg.kind = "http" =>
    \A r \in Accepted :
      /\ Cardinality(OkRequests(r)) + Cardinality(DropReports(r)) <= 1
      /\ r \notin (Buffered(St) \cup evicted \cup StillPending) =>
           Cardinality(OkRequests(r)) + Cardinality(DropReports(r)) = 1

\* a batch of two was split on 413; one half was delivered, the other dropped
C10_Witness ==
  /\ cfg.kind = "http"
  /\ \E h \in DOMAIN reqLog :
       /\ reqLog[h].st = "fail" /\ Len(reqLog[h].lines) = 2
       /\ OkRequests(reqLog[h].lines[1]) # {}
       /\ DropReports(reqLog[h].lines[2]) # {}
       /\ Running(St) = {}

\* the write() call made by this step, when it makes one
WriteStep == Len(writes') > Len(writes)
NewWrite == writes'[Len(writes')]

\* records a flush cycle has taken out of the buffer
Drained(S) == UNION {S.cycles[c].drained : c \in DOMAIN S.cycles}

C12_CapacityDropOldest ==
  /\ []((Guarded /\ cfg.policy = "drop-oldest") =>
          (totalBuffered <= cfg.maxBuffer /\ Cardinality(Buffered(St)) <= cfg.maxBuffer))
  /\ [][(Guarded /\ cfg.policy = "drop-oldest" /\ ~closed /\ WriteStep) =>
          LET arr == buffers'[NewWrite.key]
          IN arr # <<>> /\ arr[Len(arr)] = Len(writes')]_vars

\* the record written earliest among a set of records
Oldest(recs) == CHOOSE m \in recs : \A x \in recs : m <= x

\* C13: drop-oldest evicts the globally oldest record.  An over-capacity
\* write under drop-oldest evicts exactly one record, the one written earliest
\* among all records pending across all keys, and starts no flush.
C13_EvictsGloballyOldest ==
  [][(Guarded /\ cfg.policy = "drop-oldest" /\ ~closed /\ WriteStep
        /\ totalBuffered + 1 > cfg.maxBuffer) =>
       /\ evicted' \ evicted = {Oldest(Buffered(St) \cup {Len(writes')})}
       /\ cycles' = cycles
       /\ flushInFlight' = flushInFlight]_vars

\* C14: error policy.  A write that would push the total pending count past
\* maxBuffer throws, the record is not enqueued, and the key-to-sequence
\* mapping and the total count are what they were before the call.
C14_ErrorPolicyNoMutation ==
  [][(Guarded /\ cfg.policy = "error" /\ ~closed /\ WriteStep
        /\ totalBuffered + 1 > cfg.maxBuffer) =>
       /\ NewWrite.ret = "throw"
       /\ NewWrite.res = "rejected"
       /\ Len(writes') \notin Buffered(St)'
       /\ UNCHANGED <<keyOrder, buffers, totalBuffered>>]_vars

\* ------------------------------------------------------------- retries
\* the requests made for a batch
RequestsOf(S, lines) == {j \in DOMAIN S.reqLog : S.reqLog[j].lines = lines}

\* the outstanding requests of the HttpSink
PendingHttp == {i \in DOMAIN reqLog : cfg.kind = "http" /\ reqLog[i].st = "pending"}

\* the inputs of a response with this status
ResponseInputs(status) == HeadersOf(status) \X RandomOf(status)

\* the state after the response to request i is handled
After(i, status, in) == Settled(St, i, status, in[1], in[2])

\* a transport-level failure, or a status the claims call retryable
RetryableOutcome(status) ==
  status = 0 \/ status \in {408, 425, 429} \/ status \in 500..599

\* the cycle waits to send the same batch again, nothing reported
Retrying(S, c, lines) ==
  /\ S.cycles[c].pc \in {"sleep", "sleep0"}
  /\ S.cycles[c].lines = lines
  /\ S.dropLog = dropLog
  /\ S.reqLog = [reqLog EXCEPT ![CHOOSE i \in DOMAIN reqLog :
                                   reqLog[i].st = "pending" /\ reqLog[i].owner = c].st = "fail"]

\* the batch was reported once and is not requested again; the cycle went on
\* to the batch that follows, if there is one
DroppedAndOn(S, c, lines) ==
  /\ S.dropLog = Append(dropLog, lines)
  /\ RequestsOf(S, lines) = RequestsOf(St, lines)
  /\ LET next == IF cycles[c].right # <<>> THEN cycles[c].right
                 ELSE IF Tail(cycles[c].batches) # <<>> THEN Head(Tail(cycles[c].batches))
                 ELSE <<>>
     IN next # <<>> =>
          /\ Len(S.reqLog) = Len(reqLog) + 1
          /\ S.reqLog[Len(S.reqLog)].lines = next
          /\ S.reqLog[Len(S.reqLog)].st = "pending"
          /\ S.cycles[c].attempt = 0

\* C15: retry exhaustion is per batch and does not abort the cycle.  The
\* attempt counter of the batch being sent counts the requests made for this
\* batch only; a retryable failure of request number n of a batch leads to a
\* retry while n <= retries, and for n = retries + 1 to exactly one drop
\* report, no further request for the batch, and the next batch of the cycle
\* being sent with a fresh counter.
C15_RetryExhaustionPerBatch ==
  \A i \in PendingHttp :
    LET c == reqLog[i].owner
        lines == reqLog[i].lines
        n == Cardinality(RequestsOf(St, lines))
    IN /\ cycles[c].attempt = n - 1
       /\ n <= cfg.retries + 1
       /\ \A status \in {x \in TransportStatuses : RetryableOutcome(x)} :
            \A in \in ResponseInputs(status) :
              IF n <= cfg.retries THEN Retrying(After(i, status, in), c, lines)
              ELSE DroppedAndOn(After(i, status, in), c, lines)

\* retries = 2, two batches: three failed requests for the first, one drop
\* report for it, and the second batch delivered by the fourth request
C15_Witness ==
  /\ cfg.kind = "http" /\ cfg.retries = 2
  /\ Len(reqLog) = 4
  /\ \A j \in 1..3 : reqLog[j].st = "fail" /\ reqLog[j].lines = <<1>>
  /\ reqLog[4].st = "ok" /\ reqLog[4].lines = <<2>>
  /\ \A j \in 1..4 : reqLog[j].owner = reqLog[1].owner
  /\ dropLog = << <<1>> >>

\* C16: delivery failures never surface.  No flush cycle of the HttpSink or
\* of the non-durable BrowserSink ends with its promise rejected, whatever
\* the transport answers and although the drop callback throws; the promises
\* flush() and an over-capacity write() return are those of the cycles.
C16_NeverRejects ==
  NonDurable => \A c \in DOMAIN cycles : cycles[c].pc # "rejected"

\* a cycle of the HttpSink reported a dropped batch to a callback that throws,
\* went on and completed
C16_Witness ==
  /\ cfg.kind = "http" /\ cfg.dropThrows
  /\ dropLog # <<>>
  /\ \E c \in DOMAIN cycles :
       /\ cycles[c].pc = "done"
       /\ Range(dropLog[1]) \subseteq cycles[c].drained
       /\ \E j \in DOMAIN reqLog : reqLog[j].owner = c /\ reqLog[j].st = "ok"

\* the batch is reported once and not requested again
Dropped(S, lines) ==
  /\ S.dropLog = Append(dropLog, lines)
  /\ RequestsOf(S, lines) = RequestsOf(St, lines)

\* C17: retryable classification.  A failed attempt with retries left is
\* retried if the outcome is a transport-level failure or a status 408, 425,
\* 429 or 5xx, and an attempt is retried only then; any other status that is
\* neither a success nor 413 ends the batch at once with one drop report,
\* whatever the retry count: a batch first answered so had exactly one request.
C17_RetryableClassification ==
  \A i \in PendingHttp :
    LET c == reqLog[i].owner
        lines == reqLog[i].lines
        n == Cardinality(RequestsOf(St, lines))
    IN \A status \in TransportStatuses : \A in \in ResponseInputs(status) :
         LET S == After(i, status, in)
         IN /\ (RetryableOutcome(status) /\ n <= cfg.retries) => Retrying(S, c, lines)
            /\ (S.cycles[c].pc \in {"sleep", "sleep0"}) => RetryableOutcome(status)
            /\ (~RetryableOutcome(status) /\ ~ResOk(status) /\ status # 413) =>
                 /\ Dropped(S, lines)
                 /\ n = 1 => Cardinality(RequestsOf(S, lines)) = 1

\* retries = 2: one batch was retried, another was requested once and reported
C17_Witness ==
  /\ cfg.kind = "http" /\ cfg.retries = 2
  /\ Cardinality(RequestsOf(St, <<1>>)) >= 2
  /\ Cardinality(RequestsOf(St, <<2>>)) = 1
  /\ \E j \in RequestsOf(St, <<2>>) : reqLog[j].st = "fail"
  /\ \E d \in DOMAIN dropLog : dropLog[d] = <<2>>
  /\ \E j \in RequestsOf(St, <<3>>) : reqLog[j].st = "ok"

\* C18: one-shot 413 downshift.  A batch of n > 1 records answered with 413
\* is split once into its first floor(n/2) records and the rest; the right
\* half is not requested before the left half is resolved; a half, or a
\* single record, answered with 413 is reported dropped and not requested
\* again, and the cycle goes on.
C18_OneShotDownshift ==
  /\ \A c \in DOMAIN cycles :
       (cfg.kind = "http" /\ cycles[c].right # <<>>) =>
         (RequestsOf(St, cycles[c].right) = {} /\ ~cycles[c].allowDownshift)
  /\ \A i \in PendingHttp : \A in \in ResponseInputs(413) :
       LET c == reqLog[i].owner
           lines == reqLog[i].lines
           mid == Len(lines) \div 2
           S == After(i, 413, in)
       IN IF cycles[c].allowDownshift /\ Len(lines) > 1
          THEN /\ S.dropLog = dropLog
               /\ Len(S.reqLog) = Len(reqLog) + 1
               /\ S.reqLog[Len(S.reqLog)].lines = SubSeq(lines, 1, mid)
               /\ S.cycles[c].right = SubSeq(lines, mid + 1, Len(lines))
               /\ S.reqLog[Len(S.reqLog)].lines \o S.cycles[c].right = lines
               /\ ~S.cycles[c].allowDownshift
               /\ S.cycles[c].attempt = 0
          ELSE DroppedAndOn(S, c, lines)

\* a batch of three was answered 413; its left half <<1>> was delivered, its
\* right half <<2, 3>> was answered 413 too and reported, in three requests
C18_Witness ==
  /\ cfg.kind = "http"
  /\ Len(reqLog) = 3
  /\ reqLog[1].lines = <<1, 2, 3>> /\ reqLog[1].st = "fail"
  /\ reqLog[2].lines = <<1>> /\ reqLog[2].st = "ok"
  /\ reqLog[3].lines = <<2, 3>> /\ reqLog[3].st = "fail"
  /\ dropLog = << <<2, 3>> >>
  /\ Running(St) = {}

\* the Retry-After hints the claim speaks of: integer seconds or a date in
\* the future are valid; an absent or unparseable header or a past date is not
ValidHint(h) == h.form = "seconds" \/ (h.form = "date" /\ h.n > 0)
NoHint(h) == h.form \in {"absent", "junk"} \/ (h.form = "date" /\ h.n < 0)
HintMs(h) == IF h.form = "seconds" THEN h.n * 1000 ELSE h.n

\* C19: retry delay.  Without jitter the wait before retry number k of a
\* batch is the Retry-After hint of the failed response when it is valid, and
\* min(maxMs, baseMs * 2^(k-1)) when there is none; while the cycle waits,
\* only the end of that wait issues a request.
C19_RetryDelay ==
  /\ [](\A i \in PendingHttp :
          LET c == reqLog[i].owner
              k == Cardinality(RequestsOf(St, reqLog[i].lines))
          IN (~cfg.jitter /\ k <= cfg.retries) =>
               \A status \in {x \in TransportStatuses : RetryableOutcome(x)} :
                 \A in \in ResponseInputs(status) :
                   LET h == in[1]
                       wait == After(i, status, in).cycles[c].delay
                   IN /\ (status # 0 /\ ValidHint(h)) => wait = HintMs(h)
                      /\ (status = 0 \/ NoHint(h)) =>
                           wait = Min(cfg.maxMs, cfg.baseMs * 2 ^ (k - 1)))
  /\ [][\A c \in DOMAIN cycles :
          (cycles[c].pc = "sleep" /\ reqLog' # reqLog) =>
            (Wake(c) /\ cycles[c].delay > 0)]_vars

\* without jitter, a cycle waits 500 ms = min(maxMs, baseMs * 2) before the
\* second retry of a batch
C19_Witness ==
  /\ cfg.kind = "http" /\ ~cfg.jitter
  /\ \E c \in DOMAIN cycles :
       /\ cycles[c].pc = "sleep"
       /\ cycles[c].attempt = 2
       /\ cycles[c].delay = 500

\* C20 as stated: send tries the beacon if and only if sendBeacon is
\* available and the payload is at most beaconMaxBytes long; an accepted
\* payload is not fetched; every other payload is fetched exactly once, with
\* keepalive.
C20_TransportSelectionAlways ==
  \A k \in DOMAIN sendLog :
    LET lines == sendLog[k].lines
    IN /\ (sendLog[k].beacon # "untried") <=>
            (cfg.canBeacon /\ byteLength(lines) <= cfg.beaconMax)
       /\ sendLog[k].beacon = "accepted" => RequestsOf(St, lines) = {}
       /\ sendLog[k].beacon # "accepted" =>
            /\ Cardinality(RequestsOf(St, lines)) = 1
            /\ \A j \in RequestsOf(St, lines) : reqLog[j].keepalive

\* C20, amended: the same when an endpoint is configured; without an endpoint
\* send tries no beacon and issues no fetch.
C20_TransportSelection ==
  \A k \in DOMAIN sendLog :
    LET lines == sendLog[k].lines
    IN IF cfg.endpoint
       THEN /\ (sendLog[k].beacon # "untried") <=>
                 (cfg.canBeacon /\ byteLength(lines) <= cfg.beaconMax)
            /\ sendLog[k].beacon = "accepted" => RequestsOf(St, lines) = {}
            /\ sendLog[k].beacon # "accepted" =>
                 /\ Cardinality(RequestsOf(St, lines)) = 1
                 /\ \A j \in RequestsOf(St, lines) : reqLog[j].keepalive
       ELSE sendLog[k].beacon = "untried" /\ RequestsOf(St, lines) = {}

\* one payload was accepted by the beacon, one of threshold size was refused
\* and fetched, one above the threshold was fetched without trying the beacon
C20_Witness ==
  /\ cfg.endpoint /\ cfg.canBeacon
  /\ Len(sendLog) = 3
  /\ sendLog[1].beacon = "accepted"
  /\ sendLog[2].beacon = "refused" /\ byteLength(sendLog[2].lines) = cfg.beaconMax
  /\ sendLog[3].beacon = "untried"
  /\ Cardinality(RequestsOf(St, sendLog[2].lines)) = 1
  /\ Cardinality(RequestsOf(St, sendLog[3].lines)) = 1

\* ------------------------------------------------------------- browser
\* the outstanding requests of the flush cycles of the buffered BrowserSink
PendingBrowser ==
  {i \in DOMAIN reqLog :
     cfg.kind = "browser" /\ reqLog[i].st = "pending" /\ reqLog[i].owner # 0}

ReportedAndOn(S, c, lines) ==
  /\ S.dropLog = Append(dropLog, lines)
  /\ RequestsOf(S, lines) = RequestsOf(St, lines)
  /\ S.cycles[c].pc \notin {"sleep", "sleep0"}
  /\ LET rest == Tail(cycles[c].batches)
     IN rest # <<>> =>
          /\ Len(S.sendLog) = Len(sendLog) + 1
          /\ S.sendLog[Len(S.sendLog)].lines = Head(rest)

Durable == cfg.kind = "durable"

\* the records this step removes from the durable queue
Deleted == Range(idb) \ Range(idb')

\* the chunk handed to send(body) last, and whether that call was fulfilled:
\* the beacon took it, its fetch was answered 2xx, or there is no endpoint
LastChunk == sendLog[Len(sendLog)].lines
LastSendFulfilled ==
  IF ~cfg.endpoint \/ sendLog[Len(sendLog)].beacon = "accepted" THEN TRUE
  ELSE /\ reqLog # <<>>
       /\ reqLog[Len(reqLog)].lines = LastChunk
       /\ reqLog[Len(reqLog)].st = "ok"

\* the outstanding requests of the durable BrowserSink
PendingDurable == {i \in DOMAIN reqLog : Durable /\ reqLog[i].st = "pending"}

\* C22: durable queue protocol.  A pass first moves every in-memory record to
\* the tail of the durable queue, before any chunk is sent; each chunk sent is
\* the oldest batchSize records of the queue; records leave the queue only as
\* the chunk sent last, after that send was fulfilled; a failed delivery
\* changes nothing in the queue and ends the pass without another send.
C22_DurableQueueProtocol ==
  /\ [][Durable =>
          /\ DrainStep =>
                /\ Buffered(St)' = {} /\ totalBuffered' = 0
                /\ idb' = idb /\ sendLog' = sendLog
                /\ \E c \in Running(St)' :
                     /\ cycles'[c].pc = "idbAdd"
                     /\ Range(cycles'[c].lines) = Buffered(St)
          /\ (idb' # idb /\ Deleted = {}) =>
                \E c \in Running(St) :
                  cycles[c].pc = "idbAdd" /\ idb' = idb \o cycles[c].lines
          /\ Len(sendLog') > Len(sendLog) =>
                /\ Len(sendLog') = Len(sendLog) + 1
                /\ sendLog'[Len(sendLog')].lines = SplicePrefix(idb, cfg.batchSize)
                /\ idb' = idb
                /\ \A c \in Running(St) : cycles[c].pc = "idbTake"
          /\ Deleted # {} =>
                /\ sendLog # <<>>
                /\ LastSendFulfilled
                /\ LastChunk = SplicePrefix(idb, cfg.batchSize)
                /\ idb' = SpliceRest(idb, cfg.batchSize)]_vars
  /\ [](\A i \in PendingDurable :
          \A status \in {x \in Statuses : ~ResOk(x)} :
            \A in \in ResponseInputs(status) :
              LET S == After(i, status, in)
                  c == reqLog[i].owner
              IN /\ S.idb = idb
                 /\ S.sendLog = sendLog
                 /\ S.reqLog = [reqLog EXCEPT ![i].st = "fail"]
                 /\ S.cycles[c].pc = "done" \/ flushRequested)

\* batchSize 1, queue <<1, 2>>: the delivery of chunk <<1>> failed and nothing
\* else was sent by that cycle; the next cycle delivered <<1>> and deleted it,
\* leaving <<2>>
C22_Witness ==
  /\ Durable /\ cfg.batchSize = 1
  /\ Len(reqLog) = 2
  /\ reqLog[1].lines = <<1>> /\ reqLog[1].st = "fail"
  /\ reqLog[2].lines = <<1>> /\ reqLog[2].st = "ok"
  /\ reqLog[1].owner # reqLog[2].owner
  /\ idb = <<2>>

\* records of a chunk whose send(body) was fulfilled
DeliveredRecs ==
  {r \in DOMAIN writes :
     \/ OkRequests(r) # {}
     \/ \E k \in DOMAIN sendLog :
          /\ r \in Range(sendLog[k].lines)
          /\ (~cfg.endpoint \/ sendLog[k].beacon = "accepted")}

\* records an idbBulkAdd transaction that has not completed is adding
BeingAdded ==
  UNION {Range(cycles[c].lines) : c \in {x \in DOMAIN cycles : cycles[x].pc = "idbAdd"}}

\* C23: durable mode loses no data.  In every state every record accepted by
\* write() is in the in-memory buffer, in the durable queue (or in the
\* transaction that adds it to the queue), or was in a chunk whose delivery
\* succeeded; also after a flush that rejected.
C23_DurableNoLoss ==
  Durable =>
    \A r \in Accepted :
      r \in (Buffered(St) \cup Range(idb) \cup BeingAdded \cup DeliveredRecs)

\* ------------------------------------------------------------- immediate
Immediate == cfg.kind = "immediate"

\* the outstanding requests of immediate-mode writes
PendingImmediate ==
  {i \in DOMAIN reqLog : Immediate /\ reqLog[i].st = "pending" /\ reqLog[i].owner = 0}

\* the promise of the write() that issued request i, when the request settles
WritePromise(i, status) ==
  ImmediateSettled([St EXCEPT !.reqLog[i].st = IF ResOk(status) THEN "ok" ELSE "fail"],
                   reqLog[i].lines, status)

IsFile == cfg.kind \in FileKinds

\* the records in the files
OnDisk == UNION {Range(files[k]) : k \in Keys}

\* C25: disk order.  The file of a key holds records written under that key
\* only, in write order, each at most once; a file changes only by lines
\* being appended at its end.
C25_DiskOrder ==
  /\ [](IsFile =>
          \A k \in Keys :
            /\ \A i \in DOMAIN files[k] : writes[files[k][i]].key = k
            /\ \A i, j \in DOMAIN files[k] : i < j => files[k][i] < files[k][j])
  /\ [][IsFile =>
          \A k \in Keys :
            /\ Len(files'[k]) >= Len(files[k])
            /\ SubSeq(files'[k], 1, Len(files[k])) = files[k]]_vars

\* batchSize 2: the file of s1 received <<1, 2>> by the batch-size flush and
\* <<3>> by a later flush, that of s2 nothing
C25_Witness ==
  /\ cfg.kind = "file" /\ cfg.batchSize = 2
  /\ files["s1"] = <<1, 2, 3>>
  /\ files["s2"] = <<>>

\* C26: FileSink is frozen after close.  Once a close() call of a buffered
\* FileSink has resolved, a record written later is in no buffer and in no
\* file, whatever is called afterwards.
C26_FileFrozenAfterClose ==
  cfg.kind = "file" =>
    \A i \in DOMAIN calls :
      (calls[i].op = "close" /\ ~calls[i].threw) =>
        \A r \in DOMAIN writes :
          r > calls[i].snap => (r \notin Buffered(St) /\ r \notin OnDisk)

\* C27: FileSink auto-flush loses nothing.  A buffered FileSink never
\* discards a record; while the disk works, a write() leaves every pending
\* record and its own in the buffer or in a file, and a flush() or close()
\* leaves the buffer empty and every record that was pending in a file.
C27_FileAutoFlushLosesNothing ==
  /\ [](cfg.kind = "file" => evicted = {})
  /\ [][(cfg.kind = "file" /\ diskOk) =>
          /\ WriteStep =>
                (Buffered(St) \cup {Len(writes')}) \subseteq (Buffered(St)' \cup OnDisk')
          /\ (CallStep("flush") \/ CallStep("close")) =>
                (Buffered(St)' = {} /\ Buffered(St) \subseteq OnDisk')]_vars

\* C28: write never throws at or under capacity.  A write() after which the
\* total pending count is at most maxBuffer (an immediate sink buffers
\* nothing) does not throw, whether or not the disk or the transport fails.
C28_WriteNeverThrows ==
  [][(WriteStep /\ (cfg.kind \in {"immediate", "fileImmediate"}
                      \/ totalBuffered + 1 <= cfg.maxBuffer)) =>
       NewWrite.ret # "throw"]_vars

\* the flush cycles awaiting an IndexedDB operation
AwaitingIdb ==
  {c \in DOMAIN cycles : Durable /\ cycles[c].pc \in {"idbAdd", "idbTake", "idbDelete"}}

\* C29: storage errors propagate from flush.  When the file append fails
\* during a flush() of a FileSink the promise of that call is rejected; when
\* an IndexedDB operation (add, take or delete) awaited by a flush cycle of the
\* durable BrowserSink fails, the promise of the cycle is rejected and the
\* flush guard is released.
C29_StorageErrorsPropagate ==
  /\ [][(cfg.kind = "file" /\ CallStep("flush") /\ ~diskOk /\ Buffered(St) # {}) =>
          NewCall.threw]_vars
  /\ [](\A c \in AwaitingIdb :
          LET S == IdbSettled(St, c, FALSE)
          IN S.cycles[c].pc = "rejected" /\ S.flushInFlight = 0)

\* C30: batch-size trigger.  A write() on an open guarded sink that brings
\* the pending count of its key to batchSize while no cycle is running starts
\* a flush cycle within the call.
C30_BatchSizeTrigger ==
  [][(Guarded /\ ~closed /\ WriteStep /\ NewWrite.res = "accepted"
        /\ Len(buffers[NewWrite.key]) + 1 = cfg.batchSize /\ Running(St) = {}) =>
       Len(cycles') = Len(cycles) + 1]_vars

\* ------------------------------------------------------------- HttpSink (httpSink.ts)
IsLegacy == cfg.kind = "legacy"

\* C31: when the promise of a close() call on the HttpSink of httpSink.ts is
\* resolved, no event written before the call is still in the queue.
C31_LegacyCloseDrains ==
  IsLegacy =>
    \A i \in DOMAIN calls :
      (calls[i].op = "close" /\ Resolved(i)) =>
        \A r \in 1..calls[i].snap : r \notin Range(queue)

\* ------------------------------------------------------------- Tracer
\* the middleware invocations of emission e, in call order
CallsOf(e) == SelectSeq(mwCalls, LAMBDA c : c.emit = e)

\* the then-callback of emission e has run
ThenRan(e) ==
  \/ emits[e].pc \in {"write", "resolved"}
  \/ emits[e].pc = "rejected" /\ \A k \in DOMAIN CallsOf(e) : CallsOf(e)[k].o # "throw"

\* C32: middleware pipeline.  For every emission the middlewares are invoked
\* in array order, the first with the base event and each later one with what
\* the previous one returned; a middleware that returned null is the last one
\* invoked, the pipeline then yields null and sink.write is not called; when
\* every middleware returned an event, all were invoked and the then-callback
\* called sink.write exactly once, with the event the last one returned.
C32_MiddlewarePipeline ==
  /\ \A e \in DOMAIN emits :
       LET cs == CallsOf(e)
           n == Len(cs)
       IN /\ \A k \in 1..n : cs[k].m = k
          /\ \A k \in 1..n : cs[k].input = (IF k = 1 THEN <<>> ELSE cs[k - 1].ret)
          /\ \A k \in 1..n : cs[k].o = "null" => k = n
          /\ emits[e].nwrites <= 1
          /\ (n > 0 /\ cs[n].o = "null") =>
               /\ emits[e].nwrites = 0
               /\ emits[e].pc \in {"mw", "then", "resolved"}
               /\ emits[e].pc \in {"then", "resolved"} => emits[e].out = NullEvent
          /\ (ThenRan(e) /\ \A k \in 1..n : cs[k].o \notin {"null", "throw"}) =>
               /\ n = cfg.middlewares
               /\ emits[e].nwrites = 1
               /\ emits[e].arg = (IF n = 0 THEN <<>> ELSE cs[n].ret)
  /\ Len(writes) = Cardinality({e \in DOMAIN emits : emits[e].nwrites = 1})

\* with two middlewares, one emission was changed by the first and dropped by
\* the second, and another went through both and was written once
C32_Witness ==
  /\ cfg.middlewares = 2
  /\ \E e \in DOMAIN emits :
       /\ emits[e].pc = "resolved"
       /\ Len(CallsOf(e)) = 2
       /\ CallsOf(e)[1].o = "change"
       /\ CallsOf(e)[2].o = "null"
       /\ emits[e].nwrites = 0
  /\ \E e \in DOMAIN emits :
       /\ emits[e].pc = "resolved"
       /\ emits[e].nwrites = 1
       /\ emits[e].arg = <<1, 2>>
  /\ Len(writes) = 1

\* C33: the promise of an emit helper or of spanEnd is resolved only after
\* the promise sink.write returned for its event is.
C33_WriteHandlePropagated ==
  \A e \in DOMAIN emits :
    (emits[e].pc = "resolved" /\ emits[e].ret = "promise") =>
      cycles[emits[e].handle].pc = "done"

\* ------------------------------------------------------------- delivery order
\* C34: sequential delivery.  On the guarded HttpSink and the buffered
\* BrowserSink at most one request is outstanding; none is while a coroutine
\* waits out a backoff; and the requests of one batch (its retries) are
\* consecutive in issue order, so that the first request of a batch (or of a
\* half of a 413 split) follows the last request of the one before it.
C34_SequentialDelivery ==
  NonDurable =>
    /\ Cardinality(Outstanding) <= 1
    /\ \A c \in DOMAIN cycles :
         cycles[c].pc \in {"sleep", "sleep0", "sent"} => Outstanding = {}
    /\ \A i, j, k \in DOMAIN reqLog :
         (i < j /\ j < k /\ reqLog[i].lines = reqLog[k].lines) =>
           reqLog[j].lines = reqLog[i].lines

\* one cycle sent a batch twice (a retry after a backoff) and then, the first
\* batch resolved, issued the request of its next batch, which is outstanding
C34_Witness ==
  /\ NonDurable
  /\ Len(reqLog) = 3
  /\ reqLog[1].lines = reqLog[2].lines
  /\ reqLog[3].lines # reqLog[2].lines
  /\ reqLog[3].owner = reqLog[1].owner
  /\ reqLog[1].st = "fail" /\ reqLog[2].st # "pending"
  /\ Outstanding = {3}

\* ------------------------------------------------------------- capacity
\* C35: bounded memory.  On the guarded HttpSink and the buffered BrowserSink,
\* under every overflow policy, in every state between calls the total pending
\* count and the number of buffered records are at most maxBuffer.
C35_BoundedMemory ==
  NonDurable =>
    /\ totalBuffered <= cfg.maxBuffer
    /\ Cardinality(Buffered(St)) <= cfg.maxBuffer

\* the sum of the lengths of the pending sequences of the keys in ks
RECURSIVE SumLen(_, _)
SumLen(bufs, ks) ==
  IF ks = {} THEN 0
  ELSE LET k == CHOOSE x \in ks : TRUE
       IN Len(bufs[k]) + SumLen(bufs, ks \ {k})

\* C36: count consistency.  On the guarded HttpSink and the buffered
\* BrowserSink, in every state between calls and at every await of a flush
\* cycle, totalBuffered is the sum of the lengths of the per-key pending
\* sequences, and it is not negative.
C36_CountConsistency ==
  NonDurable =>
    /\ totalBuffered = SumLen(buffers, Keys)
    /\ totalBuffered >= 0

\* a cycle is awaiting a request for what it drained, and of the two records
\* written since, under different keys, one has been evicted and one is pending
C36_Witness ==
  /\ NonDurable
  /\ \E c \in Running(St) : cycles[c].pc = "fetch" /\ cycles[c].drained = {1}
  /\ Len(keyOrder) = 2
  /\ Cardinality(evicted) = 1
  /\ Cardinality(Buffered(St)) = 1
  /\ totalBuffered = 1

\* ------------------------------------------------------------- drain result
\* the batches of list bs that hold records of key k of S, in list order
BatchesOf(S, bs, k) == SelectSeq(bs, LAMBDA x : Range(x) \subseteq Range(S.buffers[k]))

\* position of key k in the Map
KeyPos(S, k) == CHOOSE p \in DOMAIN S.keyOrder : S.keyOrder[p] = k

\* C37: drain result shape.  For every batchSize >= 1, drainBatches applied to
\* the buffer of a guarded HttpSink or buffered BrowserSink in any state
\* returns batches of 1 to batchSize records of a single key; the batches of
\* a key, concatenated in list order, are the key's pending sequence, each but
\* the last of batchSize records; the list runs round by round, each round
\* holding one batch of every key not yet exhausted, in Map order; and it
\* leaves every sequence empty and the total 0.
C37_DrainShape ==
  NonDurable =>
    \A b \in 1..MaxBatchSize :
      LET d == drainBatches(St, b)
          bs == d.batches
          KeyOf(i) == CHOOSE k \in Keys : Range(bs[i]) \subseteq Range(buffers[k])
          Round(i) == Cardinality({j \in 1..i : KeyOf(j) = KeyOf(i)})
      IN /\ \A i \in DOMAIN bs :
              /\ Len(bs[i]) >= 1 /\ Len(bs[i]) <= b
              /\ \E k \in Keys : Range(bs[i]) \subseteq Range(buffers[k])
         /\ \A k \in Keys :
              LET mine == BatchesOf(St, bs, k)
              IN /\ Flatten(mine) = buffers[k]
                 /\ \A n \in 1..(Len(mine) - 1) : Len(mine[n]) = b
         /\ \A i, j \in DOMAIN bs :
              i < j => \/ Round(i) < Round(j)
                       \/ Round(i) = Round(j) /\ KeyPos(St, KeyOf(i)) < KeyPos(St, KeyOf(j))
         /\ \A k \in Keys : d.s.buffers[k] = <<>>
         /\ d.s.totalBuffered = 0

\* a cycle has drained three records of two keys in chunks of one: the batch
\* list goes round the keys, and the buffer is empty
C37_Witness ==
  /\ NonDurable
  /\ cfg.batchSize = 1
  /\ Len(writes) = 3
  /\ writes[1].key = "s1" /\ writes[2].key = "s2" /\ writes[3].key = "s1"
  /\ \E c \in Running(St) : cycles[c].batches = << <<1>>, <<2>>, <<3>> >>
  /\ \A k \in Keys : buffers[k] = <<>>
  /\ totalBuffered = 0

\* ------------------------------------------------------------- occupation
\* the requests made for records of a batch: for the batch and for its halves
FamilyOf(S, lines) ==
  {j \in DOMAIN S.reqLog : Range(S.reqLog[j].lines) \subseteq Range(lines)}

\* C38: bounded occupation of the cycle by one batch.  On the guarded
\* HttpSink at most retries + 1 requests are made for a batch, and at most
\* 3 * (retries + 1) for a batch together with the halves of its 413 split;
\* and with every request settling and every backoff ending, a cycle that is
\* executing comes to its end.
C38_BoundedOccupation ==
  /\ [](cfg.kind = "http" =>
          \A i \in DOMAIN reqLog :
            /\ Cardinality(RequestsOf(St, reqLog[i].lines)) <= cfg.retries + 1
            /\ Cardinality(FamilyOf(St, reqLog[i].lines)) <= 3 * (cfg.retries + 1))
  /\ ((cfg.kind = "http" /\ Running(St) # {}) ~> (Running(St) = {}))

\* a batch of two was answered 503 and then 413, its left half took two
\* requests, and its right half is at its second request, the sixth of the
\* family
C38_Witness ==
  /\ cfg.kind = "http" /\ cfg.retries = 1
  /\ Len(reqLog) = 6
  /\ \A j \in 1..2 : reqLog[j].lines = <<1, 2>>
  /\ \A j \in 3..4 : reqLog[j].lines = <<1>>
  /\ \A j \in 5..6 : reqLog[j].lines = <<2>>
  /\ Cardinality(FamilyOf(St, <<1, 2>>)) = 3 * (cfg.retries + 1)
  /\ reqLog[6].st = "pending"

\* ------------------------------------------------------------- flush guard
\* C39: the flush guard is released after every cycle.  On the guarded
\* HttpSink and the BrowserSink, flushInFlight is non-null only while the cycle
\* whose promise it holds is executing.
C39_GuardReleased ==
  Guarded => (flushInFlight # 0 => flushInFlight \in Running(St))

\* ------------------------------------------------------------- batchSize as given
\* C40: the drain terminates for every accepted configuration.  Whatever
\* batchSize the constructor stored, 0 included, no coroutine is inside a
\* drainBatches call that does not return, and in every state in which a
\* flush() would drain, the loop of drainBatches comes to its end and leaves
\* the sequence of every key empty.
C40_DrainTerminates ==
  /\ ~Hung
  /\ ReachesDrain =>
       /\ ~drainLoops(buffers, keyOrder, cfg.batchSize)
       /\ \A k \in Keys : drainBatches(St, cfg.batchSize).s.buffers[k] = <<>>

====
